---- MODULE Spec2Model ----
(***************************************************************************)
(* Model of the Predictive Resilience Failover Controller (PRFCController, *)
(* prfc.ts) and of the topology GraphEngine (graphEngine.ts).              *)
(*                                                                         *)
(* Numbers of the program are IEEE doubles; the model computes them as     *)
(* exact rationals <<numerator, denominator>> in lowest terms, so every    *)
(* comparison of the code (>, >=, <, ===) is decided exactly.              *)
(* The ts field of a BatchLatency is never read by the controller and is   *)
(* left out of the rings.                                                  *)
(***************************************************************************)
EXTENDS Integers, Sequences, FiniteSets, TLC

(***************************************************************************)
(* Exact rational arithmetic.                                              *)
(***************************************************************************)
RECURSIVE Gcd(_, _)
Gcd(a, b) == IF b = 0 THEN a ELSE Gcd(b, a % b)

AbsInt(a) == IF a < 0 THEN -a ELSE a

Rat(n, d) ==
  LET s == IF d < 0 THEN -1 ELSE 1
      g == Gcd(AbsInt(n), AbsInt(d))
  IN  IF n = 0 THEN <<0, 1>> ELSE <<(s * n) \div g, (s * d) \div g>>

R(n) == <<n, 1>>

RAdd(a, b) ==
  LET g == Gcd(a[2], b[2])
  IN  Rat(a[1] * (b[2] \div g) + b[1] * (a[2] \div g), (a[2] \div g) * b[2])

RNeg(a) == <<-a[1], a[2]>>

RSub(a, b) == RAdd(a, RNeg(b))

RMul(a, b) ==
  LET g1 == Gcd(AbsInt(a[1]), b[2])
      g2 == Gcd(AbsInt(b[1]), a[2])
  IN  IF a[1] = 0 \/ b[1] = 0 THEN <<0, 1>>
      ELSE Rat((a[1] \div g1) * (b[1] \div g2), (a[2] \div g2) * (b[2] \div g1))

\* b # 0
RDiv(a, b) == RMul(a, Rat(b[2], b[1]))

RLt(a, b) == a[1] * b[2] < b[1] * a[2]

RLe(a, b) == a[1] * b[2] <= b[1] * a[2]

RGt(a, b) == RLt(b, a)

RGe(a, b) == RLe(b, a)

RAbs(a) == <<AbsInt(a[1]), a[2]>>

RZero == <<0, 1>>

\* null, undefined and Infinity are the empty tuple; a present value v is <<v>>
None == <<>>

Some(v) == <<v>>

(***************************************************************************)
(* Configuration of the controller (constructor arguments, gateway         *)
(* defaults) and its private constants.                                    *)
(***************************************************************************)
\* windowSize of the rings; a small window keeps the eviction case close.
WindowSize == 3

\* alpha = 0.3
Alpha == <<3, 10>>

EwmaMaxMs == 100

SlopeMinMsPerS == 5

HoldSec == 3

RECOVERY_HOLD_TIME_MS == 20000

STABILITY_TIME_MS == 15000

TRANSITION_DURATION_MS == 7000

NumSteps == 5

\* cpuMax = 0.85, bufMaxPct = 0.8
CpuMax == <<17, 20>>

BufMaxPct == <<4, 5>>

(***************************************************************************)
(* Latency statistics (pure functions of the ring and of the last EWMA).   *)
(***************************************************************************)
\* faulty variant: a ring that never shifts
PushMutNoEvict(window, latencyMs) == Append(window, latencyMs)

\* push and, over windowSize, shift
PushWindow(window, latencyMs) ==
  LET w == Append(window, latencyMs)
  IN  IF Len(w) > WindowSize THEN Tail(w) ELSE w

\* faulty variant: the previous value is not weighted down
NextEwmaMutNoDecay(prev, latencyMs) ==
  IF prev = RZero
  THEN R(latencyMs)
  ELSE RAdd(RMul(Alpha, R(latencyMs)), prev)

\* the update rule of updateEWMA and of updatePathMetrics: a stored EWMA of
\* exactly 0 is taken to mean "no sample yet"
NextEwma(prev, latencyMs) ==
  IF prev = RZero
  THEN R(latencyMs)
  ELSE RAdd(RMul(Alpha, R(latencyMs)), RMul(RSub(R(1), Alpha), prev))

\* the four sums of the regression loop, x = 0-based ring index
RECURSIVE SumLoop(_, _, _)
SumLoop(window, i, acc) ==
  IF i > Len(window) THEN acc
  ELSE LET x == i - 1
           y == window[i]
       IN  SumLoop(window, i + 1,
                   [sumX  |-> acc.sumX + x,
                    sumY  |-> acc.sumY + y,
                    sumXY |-> acc.sumXY + x * y,
                    sumX2 |-> acc.sumX2 + x * x])

RegressionSums(window) ==
  SumLoop(window, 1, [sumX |-> 0, sumY |-> 0, sumXY |-> 0, sumX2 |-> 0])

\* faulty variant: the gradient without the factor n on sumXY
SlopeMutNoN(window) ==
  LET n == Len(window)
      s == RegressionSums(window)
      denominator == n * s.sumX2 - s.sumX * s.sumX
  IN  IF denominator = 0 THEN RZero
      ELSE Rat(s.sumXY - s.sumX * s.sumY, denominator)

\* the regression of a ring of at least 2 samples
RegressionSlope(window) ==
  LET n == Len(window)
      s == RegressionSums(window)
      denominator == n * s.sumX2 - s.sumX * s.sumX
  IN  IF denominator = 0 THEN RZero
      ELSE Rat(n * s.sumXY - s.sumX * s.sumY, denominator)

\* updateSlope: the aggregate slope is 0 under 2 samples
UpdateSlope(window) ==
  IF Len(window) < 2 THEN RZero ELSE RegressionSlope(window)

\* updatePathMetrics: a path's slope is left as it is under 2 samples
PathSlope(prevSlope, window) ==
  IF Len(window) >= 2 THEN RegressionSlope(window) ELSE prevSlope

(***************************************************************************)
(* GraphEngine: the topology and its queries.                              *)
(*   nodes : node id -> tier        (the Map this.nodes, static after load)*)
(*   links : sequence of [u, v, delay_ms, base_delay_ms]  (this.links);    *)
(*           base_delay_ms is None until a fault first snapshots it.       *)
(* The adjacency list holds references to the link objects, so it is       *)
(* derived from links: u -> v and v -> u per link, in link order.          *)
(***************************************************************************)
VARIABLES nodes, links

HasNode(id) == id \in DOMAIN nodes

\* buildGraph: a link with an unknown endpoint adds no adjacency entry
RECURSIVE AdjLoop(_, _, _)
AdjLoop(nodeId, i, acc) ==
  IF i > Len(links) THEN acc
  ELSE LET l == links[i]
           ok == HasNode(l.u) /\ HasNode(l.v)
           a1 == IF ok /\ l.u = nodeId
                 THEN Append(acc, [neighbor |-> l.v, link |-> i]) ELSE acc
           a2 == IF ok /\ l.v = nodeId
                 THEN Append(a1, [neighbor |-> l.u, link |-> i]) ELSE a1
       IN  AdjLoop(nodeId, i + 1, a2)

Adjacency(nodeId) == IF HasNode(nodeId) THEN AdjLoop(nodeId, 1, <<>>) ELSE <<>>

\* Array.prototype.sort((a, b) => a[0] - b[0]) is stable: an entry goes
\* behind every entry of at most its distance
RECURSIVE InsertByDist(_, _)
InsertByDist(sorted, e) ==
  IF sorted = <<>> THEN <<e>>
  ELSE IF e[1] < Head(sorted)[1] THEN <<e>> \o sorted
  ELSE <<Head(sorted)>> \o InsertByDist(Tail(sorted), e)

RECURSIVE SortQueue(_, _)
SortQueue(queue, acc) ==
  IF queue = <<>> THEN acc
  ELSE SortQueue(Tail(queue), InsertByDist(acc, Head(queue)))

\* excludeNodes is None (undefined) or <<set>>
\* faulty variant: the exclusion set is ignored
ExcludedMutNever(excludeNodes, n) == FALSE

\* excludeNodes && excludeNodes.has(n)
Excluded(excludeNodes, n) == excludeNodes # None /\ n \in excludeNodes[1]

\* the "relax edges" loop of one extracted node
RECURSIVE Relax(_, _, _, _, _, _, _)
Relax(st, nbrs, i, currentNode, currentDist, dst, excludeNodes) ==
  IF i > Len(nbrs) THEN st
  ELSE
    LET neighbor == nbrs[i].neighbor
        link     == links[nbrs[i].link]
        skip     == Excluded(excludeNodes, neighbor) /\ neighbor # dst
        newDist  == currentDist + link.delay_ms
        \* distances.get(neighbor) || Infinity: a stored 0 reads as Infinity
        stored   == st.distances[neighbor]
        oldDist  == IF stored = None \/ stored = Some(0) THEN None ELSE stored
        better   == oldDist = None \/ newDist < oldDist[1]
        st2      == IF ~skip /\ neighbor \notin st.visited /\ better
                    THEN [st EXCEPT !.distances[neighbor] = Some(newDist),
                                    !.previous[neighbor] = Some(currentNode),
                                    !.queue = Append(@, <<newDist, neighbor>>)]
                    ELSE st
    IN  Relax(st2, nbrs, i + 1, currentNode, currentDist, dst, excludeNodes)

\* the while loop over the priority queue
RECURSIVE DijkstraLoop(_, _, _, _)
DijkstraLoop(st, src, dst, excludeNodes) ==
  IF st.queue = <<>> THEN st
  ELSE
    LET sorted      == SortQueue(st.queue, <<>>)
        currentDist == Head(sorted)[1]
        currentNode == Head(sorted)[2]
        popped      == [st EXCEPT !.queue = Tail(sorted)]
    IN  IF currentNode \in st.visited
        THEN DijkstraLoop(popped, src, dst, excludeNodes)
        ELSE
          LET marked == [popped EXCEPT !.visited = @ \cup {currentNode}]
          IN  IF currentNode = dst THEN marked
              ELSE IF Excluded(excludeNodes, currentNode)
                      /\ currentNode # src /\ currentNode # dst
              THEN DijkstraLoop(marked, src, dst, excludeNodes)
              ELSE DijkstraLoop(
                     Relax(marked, Adjacency(currentNode), 1, currentNode,
                           currentDist, dst, excludeNodes),
                     src, dst, excludeNodes)

\* path reconstruction: previous.get(current) || null ends the walk at a
\* predecessor whose id is 0 as it does at null
RECURSIVE Reconstruct(_, _, _)
Reconstruct(previous, current, path) ==
  LET p2   == <<current>> \o path
      prev == previous[current]
  IN  IF prev = None \/ prev = Some(0) THEN p2
      ELSE Reconstruct(previous, prev[1], p2)

\* returns None (null) or <<path>>
FindShortestPath(src, dst, excludeNodes) ==
  IF ~HasNode(src) \/ ~HasNode(dst) THEN None
  ELSE
    LET init == [distances |-> [n \in DOMAIN nodes |->
                                  IF n = src THEN Some(0) ELSE None],
                 previous  |-> [n \in DOMAIN nodes |-> None],
                 visited   |-> {},
                 queue     |-> << <<0, src>> >>]
        fin  == DijkstraLoop(init, src, dst, excludeNodes)
    IN  IF fin.distances[dst] = None THEN None
        ELSE Some(Reconstruct(fin.previous, dst, <<>>))

\* the nodes at positions 2 .. Len - 1 of a found path
PathInner(path) == {path[j] : j \in 2 .. (Len(path) - 1)}

\* the loop "for (let i = 0; i < k; i++)"; excludeNodes is a set here
RECURSIVE KLoop(_, _, _, _, _, _, _)
KLoop(src, dst, k, i, initialExcludeSet, usedIntermediateNodes, foundPaths) ==
  IF i >= k THEN foundPaths
  ELSE
    LET currentExcludeSet ==
          initialExcludeSet \cup (usedIntermediateNodes \ {src, dst})
        path == FindShortestPath(src, dst, Some(currentExcludeSet))
    IN  IF path = None THEN foundPaths
        ELSE KLoop(src, dst, k, i + 1, initialExcludeSet,
                   usedIntermediateNodes \cup PathInner(path[1]),
                   Append(foundPaths, path[1]))

\* the nodeIds of the returned Path objects, in order (latency, capacity and
\* score are derived from nodeIds and read by no caller's control flow)
FindKShortestPaths(src, dst, k, excludeNodes) ==
  IF ~HasNode(src) \/ ~HasNode(dst) THEN <<>>
  ELSE IF k <= 0 THEN <<>>
  ELSE KLoop(src, dst, k, 0, excludeNodes, {}, <<>>)

TierOrder(tier) == CASE tier = "edge" -> 1 [] tier = "core" -> 2 [] tier = "cloud" -> 3

\* the tier loop: FALSE at an unknown node or at a decrease
RECURSIVE TierLoop(_, _, _)
TierLoop(path, i, currentTierLevel) ==
  IF i > Len(path) THEN TRUE
  ELSE IF ~HasNode(path[i]) THEN FALSE
  ELSE IF TierOrder(nodes[path[i]]) < currentTierLevel THEN FALSE
  ELSE TierLoop(path, i + 1, TierOrder(nodes[path[i]]))

\* faulty variant: a tier loop that also rejects a hop within one tier
RECURSIVE TierLoopMutStrict(_, _, _)
TierLoopMutStrict(path, i, currentTierLevel) ==
  IF i > Len(path) THEN TRUE
  ELSE IF ~HasNode(path[i]) THEN FALSE
  ELSE IF TierOrder(nodes[path[i]]) <= currentTierLevel THEN FALSE
  ELSE TierLoopMutStrict(path, i + 1, TierOrder(nodes[path[i]]))

IsValidPathMutStrict(path) ==
  IF Len(path) < 2 THEN FALSE
  ELSE IF ~TierLoopMutStrict(path, 1, 0) THEN FALSE
  ELSE nodes[path[1]] = "edge" /\ nodes[path[Len(path)]] = "cloud"

IsValidPath(path) ==
  IF Len(path) < 2 THEN FALSE
  ELSE IF ~TierLoop(path, 1, 0) THEN FALSE
  ELSE nodes[path[1]] = "edge" /\ nodes[path[Len(path)]] = "cloud"

\* base_delay_ms = base_delay_ms || delay_ms: an absent or 0 snapshot is
\* taken anew from the current delay
InjectLink(l, nodeId, additionalLatencyMs) ==
  IF l.u = nodeId \/ l.v = nodeId
  THEN LET base == IF l.base_delay_ms = None \/ l.base_delay_ms = Some(0)
                   THEN l.delay_ms ELSE l.base_delay_ms[1]
       IN  [l EXCEPT !.base_delay_ms = Some(base),
                     !.delay_ms = base + additionalLatencyMs]
  ELSE l

RemoveLink(l, nodeId) ==
  IF (l.u = nodeId \/ l.v = nodeId) /\ l.base_delay_ms # None
  THEN [l EXCEPT !.delay_ms = l.base_delay_ms[1]]
  ELSE l

(***************************************************************************)
(* PRFCController state.                                                   *)
(*   paths : path id -> PathMetrics; PathOrder is the Map's insertion      *)
(*           order (the order every loop over this.paths follows).         *)
(*   ret   : the operation that ran last and what it returned.             *)
(*   schedules : the TransitionSchedules gradualRevert has returned; the   *)
(*           caller applies their steps with applyTransitionStep.          *)
(*   aggHist, pathHist : history of the samples recorded since             *)
(*           construction or the last reset (observation only).            *)
(*   obs   : observation only.  t0 is the time of the trigger evaluation   *)
(*           that first saw the latency predicate true, stayed whether the *)
(*           predicate has been true in every state since; since is the    *)
(*           time from which the latency predicate has been true and       *)
(*           pathSince, for each path whose ewma exceeds ewmaMaxMs, the    *)
(*           time from which it has; active is the                         *)
(*           set of nodes with a fault injected and not removed, injected  *)
(*           the last fault injection with the delays and the active set   *)
(*           it found, undone the injection that the fault removal just    *)
(*           made undid.                                                   *)
(***************************************************************************)
VARIABLES now, latencyWindow, ewma, slope, nodeHealth, triggerStartTime,
          failoverInProgress, impactedBatchTime, paths, optimalDistribution,
          incidents, pending, ret, schedules, aggHist, pathHist, obs,
          currentTopology, inflight

vars == <<nodes, links, now, latencyWindow, ewma, slope, nodeHealth,
          triggerStartTime, failoverInProgress, impactedBatchTime, paths,
          optimalDistribution, incidents, pending, ret, schedules, aggHist,
          pathHist, obs, currentTopology, inflight>>

graphVars == <<nodes, links>>

\* the gateway's own state: the physical topology in use and the batches
\* whose handlers are suspended between dispatch and record
gatewayVars == <<currentTopology, inflight>>

triggerVars == <<nodeHealth, triggerStartTime, failoverInProgress,
                 impactedBatchTime, incidents, pending>>

PathIds == DOMAIN paths

\* paths are registered in ascending id order
RECURSIVE Ascending(_)
Ascending(S) ==
  IF S = {} THEN <<>>
  ELSE LET m == CHOOSE x \in S : \A y \in S : x <= y
       IN  <<m>> \o Ascending(S \ {m})

PathOrder == Ascending(DOMAIN paths)

SeqToSet(seq) == {seq[i] : i \in 1 .. Len(seq)}

RECURSIVE RSumSeq(_, _)
RSumSeq(seq, f) ==
  IF seq = <<>> THEN RZero ELSE RAdd(f[Head(seq)], RSumSeq(Tail(seq), f))

\* the degradation predicate of updatePathMetrics and detectDegradedPaths
MeetsDegraded(m) ==
  RGt(m.ewma, R(EwmaMaxMs)) /\ RGe(m.slope, R(SlopeMinMsPerS))

\* faulty variant: a path that degrades gives its load up at once
UpdatePathMetricsMutShed(m, latencyMs) ==
  LET w  == PushWindow(m.latencyWindow, latencyMs)
      e  == NextEwma(m.ewma, latencyMs)
      sl == PathSlope(m.slope, w)
      m1 == [m EXCEPT !.latencyWindow = w, !.ewma = e, !.slope = sl]
  IN  IF MeetsDegraded(m1)
      THEN [m1 EXCEPT !.status = "degraded", !.lastFailureTime = now,
                      !.loadPercentage = R(5)]
      ELSE IF m1.status = "recovering"
              /\ RLt(m1.ewma, RMul(R(EwmaMaxMs), <<3, 5>>))
      THEN [m1 EXCEPT !.status = "healthy"]
      ELSE m1

\* updatePathMetrics(pathId, latencyMs) on the PathMetrics m
UpdatePathMetrics(m, latencyMs) ==
  LET w  == PushWindow(m.latencyWindow, latencyMs)
      e  == NextEwma(m.ewma, latencyMs)
      sl == PathSlope(m.slope, w)
      m1 == [m EXCEPT !.latencyWindow = w, !.ewma = e, !.slope = sl]
  IN  IF MeetsDegraded(m1)
      THEN [m1 EXCEPT !.status = "degraded", !.lastFailureTime = now]
      ELSE IF m1.status = "recovering"
              /\ RLt(m1.ewma, RMul(R(EwmaMaxMs), <<3, 5>>))
      THEN [m1 EXCEPT !.status = "healthy"]
      ELSE m1

\* detectDegradedPaths: the registry after the scan, and the ids returned
DegradedScan(ps) ==
  [p \in DOMAIN ps |->
     IF MeetsDegraded(ps[p]) /\ ps[p].status # "degraded"
     THEN [ps[p] EXCEPT !.status = "degraded", !.lastFailureTime = now]
     ELSE ps[p]]

DegradedIds(ps) == SelectSeq(PathOrder, LAMBDA p : MeetsDegraded(ps[p]))

\* findCommonNodes(paths): paths is a sequence of node-id sequences
RECURSIVE UniqueInOrder(_, _)
UniqueInOrder(seq, acc) ==
  IF seq = <<>> THEN acc
  ELSE IF Head(seq) \in SeqToSet(acc) THEN UniqueInOrder(Tail(seq), acc)
  ELSE UniqueInOrder(Tail(seq), Append(acc, Head(seq)))

RECURSIVE Flatten(_)
Flatten(seqs) ==
  IF seqs = <<>> THEN <<>>
  ELSE UniqueInOrder(Head(seqs), <<>>) \o Flatten(Tail(seqs))

NodeCount(ps, nodeId) ==
  Cardinality({i \in 1 .. Len(ps) : nodeId \in SeqToSet(ps[i])})

CeilHalf(n) == (n + 1) \div 2

Max(a, b) == IF a >= b THEN a ELSE b

\* stable sort by count descending: a node goes behind every node of at
\* least its count
RECURSIVE InsertByCount(_, _, _)
InsertByCount(sorted, e, ps) ==
  IF sorted = <<>> THEN <<e>>
  ELSE IF NodeCount(ps, e) > NodeCount(ps, Head(sorted)) THEN <<e>> \o sorted
  ELSE <<Head(sorted)>> \o InsertByCount(Tail(sorted), e, ps)

RECURSIVE SortByCount(_, _, _)
SortByCount(seq, acc, ps) ==
  IF seq = <<>> THEN acc
  ELSE SortByCount(Tail(seq), InsertByCount(acc, Head(seq), ps), ps)

FindCommonNodes(ps) ==
  IF Len(ps) = 0 THEN <<>>
  ELSE IF Len(ps) = 1 THEN ps[1]
  ELSE
    LET order     == UniqueInOrder(Flatten(ps), <<>>)
        threshold == Max(2, CeilHalf(Len(ps)))
        common    == SelectSeq(order, LAMBDA n : NodeCount(ps, n) >= threshold)
    IN  SortByCount(common, <<>>, ps)

\* k of the alternative-path query of rebalancePaths
KAlternatives == 5

\* the residual load a degraded path is pinned to
ResidualLoad == 5

Loads(ps) == [p \in DOMAIN ps |-> ps[p].loadPercentage]

\* Object.values(d).reduce((sum, val) => sum + val, 0)
TotalOf(d) == RSumSeq(SelectSeq(PathOrder, LAMBDA p : p \in DOMAIN d), d)

\* re-normalisation to 100 when the total is off by more than 0.01
Normalise(d) ==
  LET total == TotalOf(d)
  IN  IF RGt(RAbs(RSub(total, R(100))), <<1, 100>>)
      THEN [p \in DOMAIN d |-> RMul(d[p], RDiv(R(100), total))]
      ELSE d

\* updatePathLoad for every entry of a distribution
ApplyLoads(ps, d) ==
  [p \in DOMAIN ps |->
     IF p \in DOMAIN d THEN [ps[p] EXCEPT !.loadPercentage = d[p]] ELSE ps[p]]

\* faulty variant: degraded paths pinned, the others left as they are
WeightsMutKeepOthers(ps, degradedPathIds, healthyPaths) ==
  [p \in DOMAIN ps |->
     IF p \in SeqToSet(degradedPathIds) THEN R(ResidualLoad)
     ELSE ps[p].loadPercentage]

\* faulty variant: the remaining load is split evenly over the other paths
WeightsMutEven(ps, degradedPathIds, healthyPaths) ==
  LET remainingLoad == R(100 - Len(degradedPathIds) * ResidualLoad)
  IN  [p \in DOMAIN ps |->
         IF p \in SeqToSet(degradedPathIds) THEN R(ResidualLoad)
         ELSE RDiv(remainingLoad, R(Len(healthyPaths)))]

\* step 5 of the rebalance: the weights when some path is not degraded
Weights(ps, degradedPathIds, healthyPaths) ==
  LET remainingLoad    == R(100 - Len(degradedPathIds) * ResidualLoad)
      totalHealthyLoad == RSumSeq(healthyPaths, Loads(ps))
      raw == [p \in DOMAIN ps |->
                IF p \in SeqToSet(degradedPathIds) THEN R(ResidualLoad)
                ELSE IF RGt(totalHealthyLoad, RZero)
                THEN RMul(RDiv(ps[p].loadPercentage, totalHealthyLoad),
                          remainingLoad)
                ELSE RDiv(remainingLoad, R(Len(healthyPaths)))]
  IN  Normalise(raw)

\* faulty variant: without a valid alternative the degraded paths are
\* pinned all the same
RebalanceMutPin(sourceNode, destNode) ==
  LET scanned         == DegradedScan(paths)
      degradedPathIds == DegradedIds(paths)
      degradedPaths   == [i \in 1 .. Len(degradedPathIds) |->
                            scanned[degradedPathIds[i]].nodeIds]
      bottleneckNodes == FindCommonNodes(degradedPaths)
      healthyPaths    == SelectSeq(PathOrder,
                           LAMBDA p : p \notin SeqToSet(degradedPathIds))
      info == [op |-> "rebalancePaths", degradedPaths |-> degradedPaths,
               bottleneckNodes |-> bottleneckNodes]
  IN  IF Len(degradedPathIds) = 0
      THEN [paths |-> scanned, ret |-> [op |-> "rebalancePaths", val |-> None,
              degradedPaths |-> <<>>, bottleneckNodes |-> <<>>]]
      ELSE IF Len(healthyPaths) = 0
      THEN [paths |-> scanned,
            ret |-> info @@ [val |-> Some([p \in DOMAIN paths |->
                                 Rat(100, Len(degradedPathIds))])]]
      ELSE LET newDistribution == Weights(scanned, degradedPathIds, healthyPaths)
           IN  [paths |-> ApplyLoads(scanned, newDistribution),
                ret |-> info @@ [val |-> Some(newDistribution)]]

\* rebalancePaths(graphEngine, sourceNode, destNode): the registry it leaves
\* and what it returns (None for null), with the bottleneck list it passed
\* to the k-disjoint query
Rebalance(sourceNode, destNode) ==
  LET scanned         == DegradedScan(paths)
      degradedPathIds == DegradedIds(paths)
      degradedPaths   == [i \in 1 .. Len(degradedPathIds) |->
                            scanned[degradedPathIds[i]].nodeIds]
      bottleneckNodes == FindCommonNodes(degradedPaths)
      newPaths        == FindKShortestPaths(sourceNode, destNode, KAlternatives,
                                            SeqToSet(bottleneckNodes))
      validPaths      == SelectSeq(newPaths, IsValidPath)
      healthyPaths    == SelectSeq(PathOrder,
                           LAMBDA p : p \notin SeqToSet(degradedPathIds))
      info == [op |-> "rebalancePaths", degradedPaths |-> degradedPaths,
               bottleneckNodes |-> bottleneckNodes]
  IN  IF Len(degradedPathIds) = 0
      THEN [paths |-> scanned, ret |-> [op |-> "rebalancePaths", val |-> None,
              degradedPaths |-> <<>>, bottleneckNodes |-> <<>>]]
      ELSE IF Len(newPaths) = 0 \/ Len(validPaths) = 0
      THEN [paths |-> scanned, ret |-> info @@ [val |-> None]]
      ELSE IF Len(healthyPaths) = 0
      THEN [paths |-> scanned,
            ret |-> info @@ [val |-> Some([p \in DOMAIN paths |->
                                 Rat(100, Len(degradedPathIds))])]]
      ELSE LET newDistribution == Weights(scanned, degradedPathIds, healthyPaths)
           IN  [paths |-> ApplyLoads(scanned, newDistribution),
                ret |-> info @@ [val |-> Some(newDistribution)]]

\* faulty variant: a degraded path that recovers is healthy at once
RecoverMutSkip(m) ==
  IF m.status = "degraded"
  THEN IF RLt(m.ewma, RMul(R(EwmaMaxMs), <<4, 5>>))
          /\ RLe(m.slope, <<1, 2>>)
          /\ now - m.lastFailureTime > RECOVERY_HOLD_TIME_MS
       THEN [m EXCEPT !.status = "healthy", !.lastRecoveryTime = now]
       ELSE m
  ELSE m

\* faulty variant: a degraded path is never promoted
RecoverMutStuck(m) ==
  IF m.status = "recovering"
     /\ RLt(m.ewma, RMul(R(EwmaMaxMs), <<3, 5>>))
     /\ now - m.lastRecoveryTime > STABILITY_TIME_MS
  THEN [m EXCEPT !.status = "healthy"]
  ELSE m

\* detectRecoveredPaths: one status step per path and call
Recover(m) ==
  IF m.status = "degraded"
  THEN IF RLt(m.ewma, RMul(R(EwmaMaxMs), <<4, 5>>))
          /\ RLe(m.slope, <<1, 2>>)
          /\ now - m.lastFailureTime > RECOVERY_HOLD_TIME_MS
       THEN [m EXCEPT !.status = "recovering", !.lastRecoveryTime = now]
       ELSE m
  ELSE IF m.status = "recovering"
  THEN IF RLt(m.ewma, RMul(R(EwmaMaxMs), <<3, 5>>))
          /\ now - m.lastRecoveryTime > STABILITY_TIME_MS
       THEN [m EXCEPT !.status = "healthy"]
       ELSE m
  ELSE m

RecoveredScan(ps) == [p \in DOMAIN ps |-> Recover(ps[p])]

RecoveredIds(ps) ==
  SelectSeq(PathOrder, LAMBDA p : Recover(ps[p]).status # ps[p].status)

\* faulty variant: the interpolation runs one step behind
StepMutLag(current, target, i) ==
  Normalise([p \in DOMAIN current |->
               RAdd(current[p],
                    RMul(RSub(target[p], current[p]), Rat(i - 1, NumSteps)))])

\* step i of a schedule from current to target
StepDistribution(current, target, i) ==
  Normalise([p \in DOMAIN current |->
               RAdd(current[p],
                    RMul(RSub(target[p], current[p]), Rat(i, NumSteps)))])

\* gradualRevert after its detectRecoveredPaths call, on the registry ps:
\* None (null) or <<schedule>>
Schedule(ps) ==
  LET currentDistribution == Loads(ps)
      allDegraded == \A p \in DOMAIN ps : ps[p].status = "degraded"
      targetDistribution ==
        IF allDegraded
        THEN [p \in DOMAIN ps |-> Rat(100, Cardinality(DOMAIN ps))]
        ELSE optimalDistribution
      needsRevert == \E p \in DOMAIN ps :
        RGt(RAbs(RSub(currentDistribution[p], targetDistribution[p])), R(1))
      hasHealthyOrRecovering == \E p \in DOMAIN ps :
        ps[p].status \in {"healthy", "recovering"}
      stepDuration == TRANSITION_DURATION_MS \div NumSteps
  IN  IF ~needsRevert \/ ~hasHealthyOrRecovering THEN None
      ELSE Some([steps |-> [i \in 1 .. NumSteps |->
                   [timestamp |-> now + i * stepDuration,
                    distribution |->
                      StepDistribution(currentDistribution,
                                       targetDistribution, i)]],
                 durationMs |-> TRANSITION_DURATION_MS,
                 startTime |-> now])

(***************************************************************************)
(* Bounds of the model and the inputs the operations are called with.      *)
(***************************************************************************)
\* samples recorded in a run of the path registry (Spec), of the health
\* state machine (SpecFsm), of the statistics (SpecStats) and of the
\* trigger (SpecTrigger)
MaxSamples == 3

MaxFsmSamples == 6

MaxStatSamples == 5

MaxTriggerSamples == 3

\* schedules a run keeps for applyTransitionStep
MaxSchedules == 1

\* failovers a run records
MaxIncidents == 1

\* Date.now() at construction
StartTime == 1000

\* the last instant a run of the health state machine and of the trigger
\* reaches
MaxFsmTime == 49000

MaxTriggerTime == 5000

\* the latencies a batch is measured with, and the paths it is dispatched on
Latencies == {100, 200}

SampledPaths == {0, 1}

FsmLatencies == {0, 200}

FsmPaths == {0}

StatLatencies == {0, 100, 200}

StatPaths == {0, 1}

TriggerLatencies == {100, 300}

\* the destinations a rebalance is asked for
RebalanceTargets == {19, 21}

FsmTargets == {19}

\* the time that passes between two operations
TickSteps == {16000}

TriggerTickSteps == {1000}

Topology ==
  [nodes |-> (1 :> "edge") @@ (9 :> "core") @@ (10 :> "core")
             @@ (19 :> "cloud") @@ (20 :> "cloud") @@ (21 :> "cloud"),
   links |-> << [u |-> 1, v |-> 9, delay_ms |-> 5, base_delay_ms |-> None],
                [u |-> 1, v |-> 10, delay_ms |-> 6, base_delay_ms |-> None],
                [u |-> 9, v |-> 19, delay_ms |-> 5, base_delay_ms |-> None],
                [u |-> 9, v |-> 20, delay_ms |-> 5, base_delay_ms |-> None],
                [u |-> 10, v |-> 21, delay_ms |-> 5, base_delay_ms |-> None],
                [u |-> 10, v |-> 19, delay_ms |-> 8, base_delay_ms |-> None],
                [u |-> 10, v |-> 20, delay_ms |-> 8, base_delay_ms |-> None],
                [u |-> 9, v |-> 21, delay_ms |-> 8, base_delay_ms |-> None] >>]

\* registerPath(pathId, nodeIds, initialLoad) for the three paths
RegisteredNodeIds == (0 :> <<1, 9, 19>>) @@ (1 :> <<1, 9, 20>>) @@ (2 :> <<1, 10, 21>>)

InitialLoads == { (0 :> 50) @@ (1 :> 30) @@ (2 :> 20) }

\* a topology in which the core node of one path is the only way to one
\* cloud node and the only tier-ordered way to another
TopologyDetour ==
  [nodes |-> (1 :> "edge") @@ (9 :> "core") @@ (10 :> "core")
             @@ (19 :> "cloud") @@ (20 :> "cloud") @@ (21 :> "cloud"),
   links |-> << [u |-> 1, v |-> 9, delay_ms |-> 5, base_delay_ms |-> None],
                [u |-> 9, v |-> 19, delay_ms |-> 5, base_delay_ms |-> None],
                [u |-> 9, v |-> 21, delay_ms |-> 5, base_delay_ms |-> None],
                [u |-> 1, v |-> 20, delay_ms |-> 8, base_delay_ms |-> None],
                [u |-> 20, v |-> 10, delay_ms |-> 5, base_delay_ms |-> None],
                [u |-> 10, v |-> 19, delay_ms |-> 5, base_delay_ms |-> None] >>]

\* a topology whose cloud node no link reaches
TopologySplit ==
  [nodes |-> (1 :> "edge") @@ (2 :> "core") @@ (3 :> "cloud"),
   links |-> << [u |-> 1, v |-> 2, delay_ms |-> 5, base_delay_ms |-> None] >>]

\* topology data without its nodes array
TopologyMalformed == [nodes |-> None, links |-> <<>>]

DetourNodeIds == (0 :> <<1, 9, 19>>) @@ (1 :> <<1, 20>>)

MaxDetourSamples == 3

\* a registry of two paths, for the runs in which every path degrades
PairNodeIds == (0 :> <<1, 9, 19>>) @@ (1 :> <<1, 10, 21>>)

PairLoads == (0 :> 60) @@ (1 :> 40)

PairPaths == {0, 1}

MaxPairSamples == 4

\* samples that never exceed ewmaMaxMs
MaxCalmSamples == 3

CalmLatencies == {0, 40, 100}

CalmPaths == {None, Some(0)}

\* one path is fed a constant high latency while the others stay low
MaxHighSamples == 10

MaxLowSamples == 2

MaxStreamTime == 5000

HighLatencies == {150}

LowLatencies == {50}

HighPaths == {0}

LowPaths == {1, 2}

RegisterPath(nodeIds, initialLoad) ==
  [nodeIds |-> nodeIds, ewma |-> RZero, slope |-> RZero,
   loadPercentage |-> R(initialLoad), status |-> "healthy",
   lastFailureTime |-> 0, lastRecoveryTime |-> 0, latencyWindow |-> <<>>]

\* the topologies the graph queries and the fault operations run on: a
\* diamond whose edge node has id 0, and the same diamond with ids from 1
TopologyZero ==
  [nodes |-> (0 :> "edge") @@ (1 :> "core") @@ (2 :> "core") @@ (3 :> "cloud"),
   links |-> << [u |-> 0, v |-> 1, delay_ms |-> 5, base_delay_ms |-> None],
                [u |-> 0, v |-> 2, delay_ms |-> 6, base_delay_ms |-> None],
                [u |-> 1, v |-> 3, delay_ms |-> 5, base_delay_ms |-> None],
                [u |-> 2, v |-> 3, delay_ms |-> 5, base_delay_ms |-> None],
                [u |-> 1, v |-> 2, delay_ms |-> 0, base_delay_ms |-> None] >>]

TopologyDiamond ==
  [nodes |-> (1 :> "edge") @@ (2 :> "core") @@ (3 :> "core") @@ (4 :> "cloud"),
   links |-> << [u |-> 1, v |-> 2, delay_ms |-> 5, base_delay_ms |-> None],
                [u |-> 1, v |-> 3, delay_ms |-> 6, base_delay_ms |-> None],
                [u |-> 2, v |-> 4, delay_ms |-> 5, base_delay_ms |-> None],
                [u |-> 3, v |-> 4, delay_ms |-> 5, base_delay_ms |-> None],
                [u |-> 2, v |-> 3, delay_ms |-> 0, base_delay_ms |-> None] >>]

GraphTopologies == {TopologyZero, TopologyDiamond}

\* a topology with links of delay 0 at the edge node
TopologyFree ==
  [nodes |-> (1 :> "edge") @@ (2 :> "core") @@ (3 :> "cloud"),
   links |-> << [u |-> 1, v |-> 2, delay_ms |-> 0, base_delay_ms |-> None],
                [u |-> 1, v |-> 3, delay_ms |-> 0, base_delay_ms |-> None],
                [u |-> 2, v |-> 3, delay_ms |-> 5, base_delay_ms |-> None] >>]

\* topologies with non-negative link delays and no node 0
DelayTopologies == {TopologyDiamond, TopologyFree, TopologyDetour}

\* failovers in a run of the gateway with its health poll
MaxFlips == 2

\* the most paths a query between two nodes asks for
MaxK == 3

\* the lists of degraded paths findCommonNodes is asked about
MaxCommonPaths == 3

CommonPathPool ==
  {<<1, 9, 19>>, <<1, 9, 20>>, <<1, 10, 21>>, <<1, 10, 19>>, <<1, 9, 10, 21>>}

\* samples that make the latency predicate true, false and true again
MaxDriftSamples == 4

DriftLatencies == {100, 300, 500}

\* a path that degrades and is then fed a constant calm latency
MaxRevertSamples == 7

MaxRevertTime == 49000

RevertHighLatencies == {100, 200}

RevertCalmLatencies == {0, 40}

RevertPath == 0

\* the topology files a load is asked to read
TopologyFiles ==
  GraphTopologies \cup {TopologyDetour, TopologySplit, TopologyMalformed}

\* a node id no topology has
UnknownNode == 7

\* the longest node sequence isValidPath is asked about
MaxPathLen == 3

\* the latencies a fault adds and the k of a k-shortest-paths query
FaultLatencies == {10, 20}

KValues == {2, 3}

EdgeNodes == {n \in DOMAIN nodes : nodes[n] = "edge"}

CoreNodes == {n \in DOMAIN nodes : nodes[n] = "core"}

\* the nodes faults are injected on: the edge node and the core node next
\* to it with the lowest id, which share a link
FaultNodes ==
  EdgeNodes \cup {CHOOSE c \in CoreNodes : \A d \in CoreNodes : c <= d}

CloudNodes == {n \in DOMAIN nodes : nodes[n] = "cloud"}

\* samples and time of the runs that mix path ids, and a path id that is
\* not registered
MaxFrameSamples == 3

MaxStaleSamples == 5

MaxFrameTime == 17000

UnregisteredPath == 7

\* batches per run of the virtual dispatcher, the time its runs end at, and
\* the clock steps, node faults and Math.random() * 100 draws they see
MaxBatches == 3

MaxInflight == 2

MaxVirtualTime == 1200

VirtualTickSteps == {100}

VirtualFaults == {95}

Randoms == {0, 50, 80}

\* the topology of those runs, every path of one estimated latency, and
\* the three paths an embedding registers
TopologyVirtual ==
  [nodes |-> (1 :> "edge") @@ (9 :> "core") @@ (10 :> "core")
             @@ (19 :> "cloud") @@ (20 :> "cloud"),
   links |-> << [u |-> 1, v |-> 9, delay_ms |-> 5, base_delay_ms |-> None],
                [u |-> 1, v |-> 10, delay_ms |-> 5, base_delay_ms |-> None],
                [u |-> 9, v |-> 19, delay_ms |-> 5, base_delay_ms |-> None],
                [u |-> 9, v |-> 20, delay_ms |-> 5, base_delay_ms |-> None],
                [u |-> 10, v |-> 19, delay_ms |-> 5, base_delay_ms |-> None],
                [u |-> 10, v |-> 20, delay_ms |-> 5, base_delay_ms |-> None] >>]

VirtualNodeIds == (0 :> <<1, 9, 19>>) @@ (1 :> <<1, 9, 20>>) @@ (2 :> <<1, 10, 20>>)

\* the nodes whose health the gateway polls, and what they report
HealthNodes == {"n1"}

HealthReports ==
  { [cpu |-> <<1, 2>>, bufferDepth |-> 0, bufferMax |-> 200],
    [cpu |-> <<9, 10>>, bufferDepth |-> 0, bufferMax |-> 200] }

\* the mode executeFailover is called with, and the spin-up delays
\* 400 + Math.random() * 300 it may draw in cold mode
FailoverModes == {"predictive", "cold"}

\* the topology the gateway starts on (TOPOLOGY is not set in the environment)
TOPOLOGY == "n1-n2-n3"

\* the modes the gateway can be configured with
GatewayModes == {"reactive", "warm", "cold", "predictive"}

SpinUpDelays == {400, 699}

(***************************************************************************)
(* Initial states: the controller as constructed, the three paths          *)
(* registered, the topology loaded.                                        *)
(***************************************************************************)
\* the controller as constructed, before any path is registered
InitFields ==
  /\ currentTopology = TOPOLOGY
  /\ inflight = <<>>
  /\ now = StartTime
  /\ latencyWindow = <<>>
  /\ ewma = RZero
  /\ slope = RZero
  /\ nodeHealth = <<>>
  /\ triggerStartTime = None
  /\ failoverInProgress = FALSE
  /\ impactedBatchTime = None
  /\ incidents = <<>>
  /\ pending = None
  /\ ret = [op |-> "constructor"]
  /\ schedules = {}
  /\ aggHist = <<>>
  /\ obs = [stayed |-> FALSE, t0 |-> None, since |-> None, pathSince |-> <<>>,
            active |-> {}, injected |-> None, undone |-> None]

\* registerPath(p, nodeIds[p], loads[p]) for every p
InitRegistry(nodeIds, loads) ==
  /\ paths = [p \in DOMAIN nodeIds |-> RegisterPath(nodeIds[p], loads[p])]
  /\ optimalDistribution = [p \in DOMAIN nodeIds |-> R(loads[p])]
  /\ pathHist = [p \in DOMAIN nodeIds |-> <<>>]

InitController ==
  /\ InitFields
  /\ \E loads \in InitialLoads : InitRegistry(RegisteredNodeIds, loads)

Init ==
  /\ nodes = Topology.nodes
  /\ links = Topology.links
  /\ InitController

(***************************************************************************)
(* Operations of the controller.                                           *)
(***************************************************************************)
LatencyPredicate(e, sl) ==
  RGt(e, R(EwmaMaxMs)) /\ RGt(sl, R(SlopeMinMsPerS))

\* time passes
Advance(d, limit) ==
  /\ now + d <= limit
  /\ now' = now + d
  /\ UNCHANGED <<graphVars, gatewayVars,
                 latencyWindow, ewma, slope, triggerVars, paths,
                 optimalDistribution, ret, schedules, aggHist, pathHist, obs>>

\* addBatchLatency(latencyMs, pathId); pathId is None when omitted
BatchLatencyCall(latencyMs, pathId) ==
  LET w == PushWindow(latencyWindow, latencyMs)
      e == NextEwma(ewma, latencyMs)
      registered == pathId # None /\ pathId[1] \in DOMAIN paths
  IN  /\ latencyWindow' = w
      /\ ewma' = e
      /\ slope' = UpdateSlope(w)
      /\ paths' = IF registered
                  THEN [paths EXCEPT ![pathId[1]] =
                          UpdatePathMetrics(paths[pathId[1]], latencyMs)]
                  ELSE paths
      /\ aggHist' = Append(aggHist, latencyMs)
      /\ pathHist' = IF registered
                     THEN [pathHist EXCEPT ![pathId[1]] = Append(@, latencyMs)]
                     ELSE pathHist
      /\ ret' = [op |-> "addBatchLatency"]
      /\ obs' = [obs EXCEPT
                  !.stayed = @ /\ LatencyPredicate(e, UpdateSlope(w)),
                  !.since = IF ~LatencyPredicate(e, UpdateSlope(w)) THEN None
                            ELSE IF @ = None THEN Some(now) ELSE @,
                  !.pathSince =
                    IF ~registered THEN @
                    ELSE LET q == pathId[1]
                             rest == [r \in DOMAIN @ \ {q} |-> @[r]]
                         IN  IF ~RGt(NextEwma(paths[q].ewma, latencyMs),
                                     R(EwmaMaxMs))
                             THEN rest
                             ELSE IF q \in DOMAIN @ THEN @
                             ELSE (q :> now) @@ rest]
      /\ UNCHANGED <<graphVars, currentTopology, now, triggerVars,
                     optimalDistribution, schedules>>

\* a call that is not the tail of a suspended gateway handler
AddBatchLatency(latencyMs, pathId) ==
  /\ BatchLatencyCall(latencyMs, pathId)
  /\ UNCHANGED inflight

DetectDegradedPaths ==
  /\ paths' = DegradedScan(paths)
  /\ ret' = [op |-> "detectDegradedPaths", val |-> DegradedIds(paths)]
  /\ UNCHANGED <<graphVars, gatewayVars,
                 now, latencyWindow, ewma, slope, triggerVars,
                 optimalDistribution, schedules, aggHist, pathHist, obs>>

RebalancePaths(sourceNode, destNode) ==
  LET r == Rebalance(sourceNode, destNode)
  IN  /\ paths' = r.paths
      /\ ret' = r.ret
      /\ UNCHANGED <<graphVars, gatewayVars,
                     now, latencyWindow, ewma, slope, triggerVars,
                     optimalDistribution, schedules, aggHist, pathHist, obs>>

DetectRecoveredPaths ==
  /\ paths' = RecoveredScan(paths)
  /\ ret' = [op |-> "detectRecoveredPaths", val |-> RecoveredIds(paths)]
  /\ UNCHANGED <<graphVars, gatewayVars,
                 now, latencyWindow, ewma, slope, triggerVars,
                 optimalDistribution, schedules, aggHist, pathHist, obs>>

\* gradualRevert(); the caller keeps the returned schedule to apply its
\* steps later, or drops it
GradualRevert(keep) ==
  LET ps == RecoveredScan(paths)
      sc == Schedule(ps)
      kept == IF sc = None \/ ~keep THEN schedules ELSE schedules \cup {sc[1]}
  IN  /\ Cardinality(kept) <= MaxSchedules
      /\ paths' = ps
      /\ ret' = [op |-> "gradualRevert", val |-> sc]
      /\ schedules' = kept
      /\ UNCHANGED <<graphVars, gatewayVars,
                     now, latencyWindow, ewma, slope, triggerVars,
                     optimalDistribution, aggHist, pathHist, obs>>

\* applyTransitionStep(step) for a step of a schedule returned earlier
ApplyTransitionStep(step) ==
  /\ paths' = ApplyLoads(paths, step.distribution)
  /\ ret' = [op |-> "applyTransitionStep", val |-> step]
  /\ UNCHANGED <<graphVars, gatewayVars,
                 now, latencyWindow, ewma, slope, triggerVars,
                 optimalDistribution, schedules, aggHist, pathHist, obs>>

(***************************************************************************)
(* The path registry under dispatch, rebalance and revert.                 *)
(***************************************************************************)
Next ==
  \/ \E x \in Latencies, p \in SampledPaths :
       Len(aggHist) < MaxSamples /\ AddBatchLatency(x, Some(p))
  \/ \E s \in EdgeNodes, t \in RebalanceTargets : RebalancePaths(s, t)
  \/ GradualRevert(TRUE)
  \/ \E sc \in schedules : \E i \in 1 .. NumSteps : ApplyTransitionStep(sc.steps[i])

Spec == Init /\ [][Next]_vars

(***************************************************************************)
(* The health state machine of one path through a whole cycle.             *)
(***************************************************************************)
NextFsm ==
  \/ \E d \in TickSteps : Advance(d, MaxFsmTime)
  \/ \E x \in FsmLatencies, p \in FsmPaths :
       Len(aggHist) < MaxFsmSamples /\ AddBatchLatency(x, Some(p))
  \/ DetectDegradedPaths
  \/ \E s \in EdgeNodes, t \in FsmTargets : RebalancePaths(s, t)
  \/ DetectRecoveredPaths
  \/ GradualRevert(FALSE)

SpecFsm == Init /\ [][NextFsm]_vars

(***************************************************************************)
(* The rings and statistics under a stream of samples.                     *)
(***************************************************************************)
NextStats ==
  \E x \in StatLatencies, p \in StatPaths :
    Len(aggHist) < MaxStatSamples /\ AddBatchLatency(x, Some(p))

SpecStats == Init /\ [][NextStats]_vars

(***************************************************************************)
(* Samples with a registered, an unregistered and no path id, between      *)
(* rebalances that move the loads.                                         *)
(***************************************************************************)
NextFrame ==
  \/ \E x \in Latencies,
        pathId \in {None, Some(UnregisteredPath)}
                     \cup {Some(p) : p \in DOMAIN paths} :
       Len(aggHist) < MaxFrameSamples /\ AddBatchLatency(x, pathId)
  \/ \E d \in TickSteps : Advance(d, MaxFrameTime)
  \/ \E s \in EdgeNodes, t \in RebalanceTargets : RebalancePaths(s, t)

SpecFrame == Init /\ [][NextFrame]_vars

(***************************************************************************)
(* Samples enough for one path to degrade and calm down again while        *)
(* another degrades, between rebalances.                                   *)
(***************************************************************************)
NextStale ==
  \/ \E x \in Latencies, p \in SampledPaths :
       Len(aggHist) < MaxStaleSamples /\ AddBatchLatency(x, Some(p))
  \/ \E s \in EdgeNodes, t \in RebalanceTargets : RebalancePaths(s, t)

SpecStale == Init /\ [][NextStale]_vars

(***************************************************************************)
(* Trigger evaluation and failover accounting.                             *)
(***************************************************************************)
\* updateNodeHealth(nodeId, cpu, bufferDepth, bufferMax)
UpdateNodeHealth(nodeId, cpu, bufferDepth, bufferMax) ==
  LET bufferPct == IF bufferMax > 0 THEN Rat(bufferDepth, bufferMax) ELSE RZero
  IN  /\ nodeHealth' = (nodeId :> [cpu |-> cpu, bufferPct |-> bufferPct])
                         @@ nodeHealth
      /\ ret' = [op |-> "updateNodeHealth"]
      /\ UNCHANGED <<graphVars, gatewayVars,
                     now, latencyWindow, ewma, slope,
                     triggerStartTime, failoverInProgress, impactedBatchTime,
                     incidents, pending, paths, optimalDistribution, schedules,
                     aggHist, pathHist, obs>>

ResourcePressure ==
  \E n \in DOMAIN nodeHealth :
    RGt(nodeHealth[n].cpu, CpuMax) \/ RGt(nodeHealth[n].bufferPct, BufMaxPct)

\* faulty variant: a hold that expires one second early
HoldMetMutEarly(start) == now - start >= (HoldSec - 1) * 1000

\* holdDuration >= holdSec, with holdDuration = (now() - start) / 1000
HoldMet(start) == now - start >= HoldSec * 1000

\* checkFailoverTrigger(): what it returns and the triggerStartTime it leaves
CheckResult ==
  LET triggerByLatency == LatencyPredicate(ewma, slope)
      start == IF triggerByLatency
               THEN IF triggerStartTime = None THEN Some(now) ELSE triggerStartTime
               ELSE None
  IN  IF triggerByLatency /\ HoldMet(start[1])
      THEN [start |-> start, triggered |-> TRUE, reason |-> "latency_drift"]
      ELSE IF ResourcePressure
      THEN [start |-> start, triggered |-> TRUE, reason |-> "resource_pressure"]
      ELSE [start |-> start, triggered |-> FALSE, reason |-> ""]

CheckFailoverTrigger ==
  LET r == CheckResult
  IN  /\ triggerStartTime' = r.start
      /\ ret' = [op |-> "checkFailoverTrigger", triggered |-> r.triggered,
                 reason |-> r.reason, at |-> now]
      /\ obs' = IF ~LatencyPredicate(ewma, slope)
                THEN [obs EXCEPT !.stayed = FALSE, !.t0 = None]
                ELSE IF obs.t0 = None
                THEN [obs EXCEPT !.stayed = TRUE, !.t0 = Some(now)]
                ELSE obs
      /\ UNCHANGED <<graphVars, gatewayVars,
                     now, latencyWindow, ewma, slope, nodeHealth,
                     failoverInProgress, impactedBatchTime, incidents, pending,
                     paths, optimalDistribution, schedules, aggHist, pathHist>>

\* the incident executeFailover pushes when it completes at time now
\* faulty variant: the severity threshold is ewmaMaxMs itself
IncidentMutSeverity(mode, currentPath, backupPath, spinUpDelayMs, impacted) ==
  [kind |-> "failover",
   severity |-> IF RGt(ewma, R(EwmaMaxMs)) THEN "high" ELSE "medium",
   ts |-> now,
   mode |-> mode,
   path_before |-> currentPath,
   path_after |-> backupPath,
   spinUpDelayMs |-> IF mode = "cold" THEN spinUpDelayMs ELSE 0,
   mttr |-> IF impacted # None /\ impacted[1] # 0 THEN now - impacted[1] ELSE 0]

Incident(mode, currentPath, backupPath, spinUpDelayMs, impacted) ==
  [kind |-> "failover",
   severity |-> IF RGt(ewma, RMul(R(EwmaMaxMs), <<3, 2>>)) THEN "high" ELSE "medium",
   ts |-> now,
   mode |-> mode,
   path_before |-> currentPath,
   path_after |-> backupPath,
   spinUpDelayMs |-> IF mode = "cold" THEN spinUpDelayMs ELSE 0,
   mttr |-> IF impacted # None /\ impacted[1] # 0 THEN now - impacted[1] ELSE 0]

\* the tail of executeFailover: the incident and the reset
FinishFailover(mode, currentPath, backupPath, spinUpDelayMs, impacted) ==
  /\ incidents' = Append(incidents,
                    Incident(mode, currentPath, backupPath, spinUpDelayMs, impacted))
  /\ latencyWindow' = <<>>
  /\ ewma' = RZero
  /\ slope' = RZero
  /\ triggerStartTime' = None
  /\ impactedBatchTime' = None
  /\ failoverInProgress' = FALSE
  /\ pending' = None
  /\ aggHist' = <<>>
  /\ obs' = [obs EXCEPT !.stayed = FALSE, !.t0 = None, !.since = None]
  /\ ret' = [op |-> "executeFailover", val |-> "done"]
  /\ UNCHANGED <<graphVars, inflight, now, nodeHealth, paths,
                 optimalDistribution, schedules, pathHist>>

\* executeFailover(mode, currentPath, backupPath, triggerDetails) up to its
\* first suspension: rejected while another call is in progress, suspended
\* on the spin-up timer in cold mode, complete otherwise
FailoverCall(mode, currentPath, backupPath) ==
  IF failoverInProgress
  THEN /\ ret' = [op |-> "executeFailover", val |-> "rejected"]
       /\ UNCHANGED <<graphVars, inflight, now, latencyWindow, ewma, slope,
                      triggerVars, paths, optimalDistribution, schedules,
                      aggHist, pathHist, obs>>
  ELSE LET impacted == IF impactedBatchTime = None THEN Some(now)
                       ELSE impactedBatchTime
       IN  IF mode = "cold"
           THEN \E spinUpDelayMs \in SpinUpDelays :
                  /\ failoverInProgress' = TRUE
                  /\ impactedBatchTime' = impacted
                  /\ pending' = Some([mode |-> mode, currentPath |-> currentPath,
                                      backupPath |-> backupPath,
                                      spinUpDelayMs |-> spinUpDelayMs,
                                      wakeAt |-> now + spinUpDelayMs])
                  /\ ret' = [op |-> "executeFailover", val |-> "suspended"]
                  /\ UNCHANGED <<graphVars, inflight, now, latencyWindow, ewma,
                                 slope, nodeHealth, triggerStartTime, incidents, paths,
                                 optimalDistribution, schedules, aggHist,
                                 pathHist, obs>>
           ELSE FinishFailover(mode, currentPath, backupPath, 0, impacted)

\* a call that is not part of a gateway handler's topology swap
ExecuteFailover(mode, currentPath, backupPath) ==
  /\ FailoverCall(mode, currentPath, backupPath)
  /\ UNCHANGED currentTopology

\* the spin-up timer of a suspended executeFailover fires
ResumeFailover ==
  /\ pending # None
  /\ now >= pending[1].wakeAt
  /\ FinishFailover(pending[1].mode, pending[1].currentPath,
                    pending[1].backupPath, pending[1].spinUpDelayMs,
                    impactedBatchTime)
  /\ UNCHANGED currentTopology

NextTrigger ==
  \/ \E d \in TriggerTickSteps : Advance(d, MaxTriggerTime)
  \/ \E x \in TriggerLatencies :
       Len(aggHist) < MaxTriggerSamples /\ AddBatchLatency(x, None)
  \/ \E n \in HealthNodes, h \in HealthReports :
       UpdateNodeHealth(n, h.cpu, h.bufferDepth, h.bufferMax)
  \/ CheckFailoverTrigger
  \/ \E mode \in FailoverModes :
       /\ Len(incidents) < MaxIncidents
       /\ ExecuteFailover(mode, "n1->n2->n3", "n1->n3")
  \/ ResumeFailover

SpecTrigger == Init /\ [][NextTrigger]_vars

(***************************************************************************)
(* Failovers in every mode with samples recorded before them and during    *)
(* the spin-up sleep of a cold one.                                        *)
(***************************************************************************)
NextFailover ==
  \/ \E d \in TriggerTickSteps : Advance(d, MaxTriggerTime)
  \/ \E x \in TriggerLatencies :
       Len(aggHist) < MaxTriggerSamples /\ AddBatchLatency(x, None)
  \/ \E mode \in FailoverModes :
       /\ Len(incidents) < MaxIncidents
       /\ ExecuteFailover(mode, "n1->n2->n3", "n1->n3")
  \/ ResumeFailover

SpecFailover == Init /\ [][NextFailover]_vars

(***************************************************************************)
(* Trigger evaluations with samples of other ingress handlers and reports  *)
(* of the health poller recorded between them.                             *)
(***************************************************************************)
NextDrift ==
  \/ \E d \in TriggerTickSteps : Advance(d, MaxTriggerTime)
  \/ \E x \in DriftLatencies :
       Len(aggHist) < MaxDriftSamples /\ AddBatchLatency(x, None)
  \/ \E n \in HealthNodes, h \in HealthReports :
       UpdateNodeHealth(n, h.cpu, h.bufferDepth, h.bufferMax)
  \/ CheckFailoverTrigger

SpecDrift == Init /\ [][NextDrift]_vars

(***************************************************************************)
(* The gateway's POST /ingest in physical routing.  The handler runs from  *)
(* its mode test through checkFailoverTrigger and executeFailover without  *)
(* suspending (executeFailover suspends only in cold mode), then awaits    *)
(* the forward and either records the measured latency with               *)
(* addBatchLatency or lands in its catch block; the segments are separate  *)
(* steps.  currentMode is whatever POST /config last set.                  *)
(***************************************************************************)
GetActivePath == IF currentTopology = "n1-n3" THEN "n1->n3" ELSE "n1->n2->n3"

GetBackupPath == IF currentTopology = "n1-n3" THEN "n1->n2->n3" ELSE "n1->n3"

\* faulty variant: the handler keeps the topology it is on
SwappedMutStay(topology) == topology

\* currentTopology === 'n1-n3' ? 'n1-n2-n3' : 'n1-n3'
Swapped(topology) == IF topology = "n1-n3" THEN "n1-n2-n3" ELSE "n1-n3"

IngestPhysical(currentMode) ==
  IF currentMode # "predictive"
  THEN /\ ret' = [op |-> "ingest", mode |-> currentMode, triggered |-> FALSE]
       /\ UNCHANGED <<graphVars, gatewayVars,
                      now, latencyWindow, ewma, slope, triggerVars,
                      paths, optimalDistribution, schedules, aggHist, pathHist,
                      obs>>
  ELSE IF CheckResult.triggered /\ ~failoverInProgress
       THEN /\ currentTopology' = Swapped(currentTopology)
            /\ FailoverCall(currentMode, GetActivePath, GetBackupPath)
       ELSE IF CheckResult.triggered
       THEN /\ currentTopology' = Swapped(currentTopology)
            /\ triggerStartTime' = CheckResult.start
            /\ ret' = [op |-> "executeFailover", val |-> "rejected"]
            /\ UNCHANGED <<graphVars, inflight, now, latencyWindow, ewma, slope,
                           nodeHealth, failoverInProgress, impactedBatchTime,
                           incidents, pending, paths, optimalDistribution,
                           schedules, aggHist, pathHist, obs>>
       ELSE /\ triggerStartTime' = CheckResult.start
            /\ ret' = [op |-> "ingest", mode |-> currentMode,
                       triggered |-> CheckResult.triggered]
            /\ obs' = IF ~LatencyPredicate(ewma, slope)
                      THEN [obs EXCEPT !.stayed = FALSE, !.t0 = None]
                      ELSE IF obs.t0 = None
                      THEN [obs EXCEPT !.stayed = TRUE, !.t0 = Some(now)]
                      ELSE obs
            /\ UNCHANGED <<graphVars, gatewayVars,
                           now, latencyWindow, ewma, slope,
                           nodeHealth, failoverInProgress, impactedBatchTime,
                           incidents, pending, paths, optimalDistribution,
                           schedules, aggHist, pathHist>>

GatewayTick == \E d \in TriggerTickSteps : Advance(d, MaxTriggerTime)

GatewayIngest ==
  \E currentMode \in GatewayModes :
    Len(incidents) < MaxIncidents /\ IngestPhysical(currentMode)

GatewayRecord ==
  \E x \in TriggerLatencies :
    Len(aggHist) < MaxTriggerSamples /\ AddBatchLatency(x, None)

\* the forward to the first-hop node throws (connection error, timeout,
\* unknown node): the catch block logs and answers 500
GatewayForwardFailed ==
  /\ ret' = [op |-> "forward", val |-> "failed", at |-> now]
  /\ UNCHANGED <<graphVars, gatewayVars,
                 now, latencyWindow, ewma, slope, triggerVars,
                 paths, optimalDistribution, schedules, aggHist, pathHist, obs>>

NextGateway ==
  \/ GatewayTick
  \/ GatewayIngest
  \/ GatewayRecord
  \/ GatewayForwardFailed

\* time passes and batches keep arriving
SpecGateway ==
  /\ Init
  /\ [][NextGateway]_vars
  /\ WF_vars(GatewayTick)
  /\ WF_vars(GatewayIngest)

(***************************************************************************)
(* The gateway in predictive mode with its health poll, over more than one *)
(* failover.                                                               *)
(***************************************************************************)
FlipIngest == Len(incidents) < MaxFlips /\ IngestPhysical("predictive")

\* pollNodeHealth() reaches a node and reports its health
FlipPoll ==
  \E n \in HealthNodes, h \in HealthReports :
    UpdateNodeHealth(n, h.cpu, h.bufferDepth, h.bufferMax)

NextFlip ==
  \/ GatewayTick
  \/ FlipIngest
  \/ GatewayRecord
  \/ FlipPoll

SpecFlip == Init /\ [][NextFlip]_vars

(***************************************************************************)
(* The topology under shortest-path queries and node latency faults.       *)
(***************************************************************************)
InitGraph ==
  /\ \E t \in GraphTopologies : nodes = t.nodes /\ links = t.links
  /\ InitController

controllerVars ==
  <<now, latencyWindow, ewma, slope, triggerVars, paths, optimalDistribution,
    schedules, aggHist, pathHist, gatewayVars>>

DelaysOf(ls) == [i \in DOMAIN ls |-> ls[i].delay_ms]

\* injectNodeLatencyFault(nodeId, additionalLatencyMs)
InjectNodeLatencyFault(nodeId, additionalLatencyMs) ==
  /\ links' = [i \in DOMAIN links |->
                 InjectLink(links[i], nodeId, additionalLatencyMs)]
  /\ ret' = [op |-> "injectNodeLatencyFault", nodeId |-> nodeId]
  /\ obs' = [obs EXCEPT !.active = @ \cup {nodeId},
                        !.injected = Some([nodeId |-> nodeId,
                                           delay_ms |-> DelaysOf(links),
                                           active |-> obs.active]),
                        !.undone = None]
  /\ UNCHANGED <<nodes, controllerVars>>

\* removeNodeLatencyFault(nodeId)
RemoveNodeLatencyFault(nodeId) ==
  /\ links' = [i \in DOMAIN links |-> RemoveLink(links[i], nodeId)]
  /\ ret' = [op |-> "removeNodeLatencyFault", nodeId |-> nodeId]
  /\ obs' = [obs EXCEPT !.active = @ \ {nodeId},
                        !.injected = None,
                        !.undone = IF obs.injected # None
                                      /\ obs.injected[1].nodeId = nodeId
                                   THEN obs.injected ELSE None]
  /\ UNCHANGED <<nodes, controllerVars>>

\* a caller asks findKShortestPaths(src, dst, k, excludeNodes)
QueryKShortestPaths(src, dst, k, excludeNodes) ==
  /\ ret' = [op |-> "findKShortestPaths", src |-> src, dst |-> dst, k |-> k,
             excludeNodes |-> excludeNodes,
             val |-> FindKShortestPaths(src, dst, k, excludeNodes)]
  /\ UNCHANGED <<graphVars, gatewayVars,
                 controllerVars, obs>>

NextGraph ==
  \/ \E n \in FaultNodes, d \in FaultLatencies : InjectNodeLatencyFault(n, d)
  \/ \E n \in FaultNodes : RemoveNodeLatencyFault(n)
  \/ \E src \in EdgeNodes, dst \in CloudNodes, k \in KValues,
        e \in {{}} \cup {{c} : c \in CoreNodes} :
       QueryKShortestPaths(src, dst, k, e)

SpecGraph == InitGraph /\ [][NextGraph]_vars

(***************************************************************************)
(* The gateway's POST /ingest in virtual routing.  The handler runs from   *)
(* detectDegradedPaths through the choice of a path without suspending,    *)
(* sleeps for the path's estimated latency, and then records the measured  *)
(* latency; the two segments are separate steps, and inflight holds the    *)
(* handlers that sleep, in arrival order.  The gateway itself registers no *)
(* path with the controller; the registry of three paths is the other      *)
(* initial state, for an embedding that calls registerPath first.          *)
(***************************************************************************)
\* getLink(u, v): the first link of the list joining the two nodes
GetLink(u, v) ==
  LET hits == {i \in DOMAIN links :
                 \/ links[i].u = u /\ links[i].v = v
                 \/ links[i].u = v /\ links[i].v = u}
  IN  IF hits = {} THEN None
      ELSE Some(links[CHOOSE i \in hits : \A j \in hits : i <= j])

RECURSIVE EstimatePathLatency(_)
EstimatePathLatency(path) ==
  IF Len(path) < 2 THEN 0
  ELSE (IF GetLink(path[1], path[2]) = None THEN 0
        ELSE GetLink(path[1], path[2])[1].delay_ms)
       + EstimatePathLatency(Tail(path))

\* loadDistribution[idx] || 0 with loadDistribution = [50, 30, 20]
LoadOf(idx) == IF idx = 1 THEN 50 ELSE IF idx = 2 THEN 30 ELSE 20

\* the orders validPaths.sort((a, b) => b.score - a.score) can leave n paths
\* in: the score is made of the links' bandwidth and utilisation, which
\* the links here do not carry
Rankings(n) ==
  {f \in [1 .. n -> 1 .. n] : \A i, j \in 1 .. n : f[i] = f[j] => i = j}

\* selectVirtualPath() from the valid paths among findKShortestPaths(edge,
\* cloud, 5) on, given their score order: the top three, numbered by rank
\* and weighted 50/30/20
SelectVirtualPath(validPaths, rank) ==
  LET n == IF Len(validPaths) < 3 THEN Len(validPaths) ELSE 3
  IN  [idx \in 1 .. n |->
         [pathId |-> idx - 1,
          nodeIds |-> validPaths[rank[idx]],
          loadPercentage |-> LoadOf(idx)]]

\* the sampling loop: the first path whose cumulative weight exceeds random,
\* the first path of all when none does
RECURSIVE SampleLoop(_, _, _, _)
SampleLoop(candidates, i, cumulativeWeight, random) ==
  IF i > Len(candidates) THEN candidates[1]
  ELSE IF random < cumulativeWeight + candidates[i].loadPercentage
  THEN candidates[i]
  ELSE SampleLoop(candidates, i + 1,
                  cumulativeWeight + candidates[i].loadPercentage, random)

\* the registry after the handler's detectDegradedPaths and, when that
\* returned an id, rebalancePaths(graphEngine, randomEdge, randomCloud)
AfterDegradedCheck(edge, cloud) ==
  IF Len(DegradedIds(paths)) > 0 THEN Rebalance(edge, cloud).paths
  ELSE DegradedScan(paths)

VirtualDispatch(rebEdge, rebCloud, candidates, random) ==
  LET selectedPath == SampleLoop(candidates, 1, 0, random)
  IN  /\ paths' = AfterDegradedCheck(rebEdge, rebCloud)
      /\ IF Len(candidates) = 0
         THEN /\ inflight' = inflight
              /\ ret' = [op |-> "dispatch", candidates |-> <<>>]
         ELSE /\ inflight' = Append(inflight,
                                [seq |-> Len(aggHist) + Len(inflight) + 1,
                                 pathId |-> selectedPath.pathId,
                                 batchStartTime |-> now,
                                 due |-> now + EstimatePathLatency(
                                                 selectedPath.nodeIds)])
              /\ ret' = [op |-> "dispatch", candidates |-> candidates,
                         selectedPath |-> selectedPath,
                         rebalanced |-> Len(DegradedIds(paths)) > 0]
      /\ UNCHANGED <<graphVars, currentTopology, now, latencyWindow, ewma,
                     slope, triggerVars, optimalDistribution, schedules,
                     aggHist, pathHist, obs>>

\* timers fire in the order of their due times, equal ones in the order
\* they were set
FiresNext(i) ==
  /\ inflight[i].due <= now
  /\ \A j \in DOMAIN inflight :
       \/ inflight[j].due > inflight[i].due
       \/ inflight[j].due = inflight[i].due /\ j >= i

RemoveAt(seq, i) == SubSeq(seq, 1, i - 1) \o SubSeq(seq, i + 1, Len(seq))

\* the sleep of a suspended handler ends: addBatchLatency(now() -
\* batchStartTime, selectedPath.pathId)
VirtualRecord ==
  \E i \in DOMAIN inflight :
    /\ FiresNext(i)
    /\ BatchLatencyCall(now - inflight[i].batchStartTime,
                        Some(inflight[i].pathId))
    /\ inflight' = RemoveAt(inflight, i)

VirtualArrive ==
  /\ Len(aggHist) + Len(inflight) < MaxBatches
  /\ Len(inflight) < MaxInflight
  /\ \E rebEdge \in EdgeNodes, rebCloud \in CloudNodes,
        edge \in EdgeNodes, cloud \in CloudNodes, random \in Randoms :
       \E validPaths \in {SelectSeq(FindKShortestPaths(edge, cloud, 5, {}),
                                    IsValidPath)} :
         \E rank \in Rankings(Len(validPaths)) :
           \E candidates \in {SelectVirtualPath(validPaths, rank)} :
             VirtualDispatch(rebEdge, rebCloud, candidates, random)

VirtualTick == \E d \in VirtualTickSteps : Advance(d, MaxVirtualTime)

VirtualFault ==
  \/ \E n \in FaultNodes, d \in VirtualFaults :
       obs.active = {} /\ InjectNodeLatencyFault(n, d)
  \/ \E n \in obs.active : RemoveNodeLatencyFault(n)

InitVirtual ==
  /\ nodes = TopologyVirtual.nodes
  /\ links = TopologyVirtual.links
  /\ InitFields
  /\ \/ InitRegistry(<<>>, <<>>)
     \/ \E loads \in InitialLoads : InitRegistry(VirtualNodeIds, loads)

NextVirtual ==
  \/ VirtualArrive
  \/ VirtualRecord
  \/ VirtualTick
  \/ VirtualFault

SpecVirtual == InitVirtual /\ [][NextVirtual]_vars

(***************************************************************************)
(* Path validation over every short node sequence.                         *)
(***************************************************************************)
SeqsUpTo(S, n) == UNION {[1 .. m -> S] : m \in 0 .. n}

\* a caller asks isValidPath(path)
QueryIsValidPath(path) ==
  /\ ret' = [op |-> "isValidPath", path |-> path, val |-> IsValidPath(path)]
  /\ UNCHANGED <<graphVars, gatewayVars,
                 controllerVars, obs>>

NextValid ==
  \E path \in SeqsUpTo(DOMAIN nodes \cup {UnknownNode}, MaxPathLen) :
    QueryIsValidPath(path)

SpecValid == InitGraph /\ [][NextValid]_vars

(***************************************************************************)
(* Shortest-path queries between any two nodes under any exclusion set.    *)
(* The queries leave the graph as it is, so a run asks one.                *)
(***************************************************************************)
\* a caller asks findShortestPath(src, dst, excludeNodes)
QueryShortestPath(src, dst, excludeNodes) ==
  /\ ret' = [op |-> "findShortestPath", src |-> src, dst |-> dst,
             excludeNodes |-> excludeNodes,
             val |-> FindShortestPath(src, dst, excludeNodes)]
  /\ UNCHANGED <<graphVars, gatewayVars,
                 controllerVars, obs>>

NextExclude ==
  \/ \E src \in DOMAIN nodes, dst \in DOMAIN nodes,
        e \in {None} \cup {Some(x) : x \in SUBSET DOMAIN nodes} :
       ret.op = "constructor" /\ QueryShortestPath(src, dst, e)
  \/ \E src \in DOMAIN nodes, dst \in DOMAIN nodes, k \in KValues,
        e \in SUBSET DOMAIN nodes :
       ret.op = "constructor" /\ QueryKShortestPaths(src, dst, k, e)

SpecExclude == InitGraph /\ [][NextExclude]_vars

(***************************************************************************)
(* A registry of two paths in which every path can degrade.                *)
(***************************************************************************)
InitPair ==
  /\ nodes = Topology.nodes
  /\ links = Topology.links
  /\ InitFields
  /\ InitRegistry(PairNodeIds, PairLoads)

NextPair ==
  \/ \E x \in Latencies, p \in PairPaths :
       Len(aggHist) < MaxPairSamples /\ AddBatchLatency(x, Some(p))
  \/ \E s \in EdgeNodes, t \in FsmTargets : RebalancePaths(s, t)
  \/ GradualRevert(TRUE)
  \/ \E sc \in schedules : \E i \in 1 .. NumSteps : ApplyTransitionStep(sc.steps[i])

SpecPair == InitPair /\ [][NextPair]_vars

(***************************************************************************)
(* Shortest-path queries on topologies with links of delay 0.              *)
(***************************************************************************)
InitDelay ==
  /\ \E t \in DelayTopologies : nodes = t.nodes /\ links = t.links
  /\ InitController

NextDelay ==
  \E src \in DOMAIN nodes, dst \in DOMAIN nodes,
     e \in {None} \cup {Some({x}) : x \in DOMAIN nodes} :
    ret.op = "constructor" /\ QueryShortestPath(src, dst, e)

SpecDelay == InitDelay /\ [][NextDelay]_vars

(***************************************************************************)
(* k-shortest-path queries between any two nodes, on topologies some of    *)
(* which join an edge node and a cloud node by a direct link.              *)
(***************************************************************************)
NextDirect ==
  \E src \in DOMAIN nodes, k \in 1 .. MaxK :
    \E dst \in DOMAIN nodes \ {src} :
      ret.op = "constructor" /\ QueryKShortestPaths(src, dst, k, {})

SpecDirect == InitDelay /\ [][NextDirect]_vars

(***************************************************************************)
(* findCommonNodes on lists of degraded paths.                             *)
(***************************************************************************)
\* a caller asks findCommonNodes(ps)
QueryCommonNodes(ps) ==
  /\ ret' = [op |-> "findCommonNodes", paths |-> ps, val |-> FindCommonNodes(ps)]
  /\ UNCHANGED <<graphVars, gatewayVars,
                 controllerVars, obs>>

NextCommon ==
  \E n \in 0 .. MaxCommonPaths : \E ps \in [1 .. n -> CommonPathPool] :
    QueryCommonNodes(ps)

SpecCommon == Init /\ [][NextCommon]_vars

(***************************************************************************)
(* Topology loads, each followed by shortest-path queries.                 *)
(***************************************************************************)
InitLoad ==
  /\ nodes = <<>>
  /\ links = <<>>
  /\ InitController

\* loadTopology(filePath) with buildGraph and verifyConnectivity; data is
\* the parsed content of the file
LoadTopology(data) ==
  IF data.nodes = None \/ data.links = None
  THEN /\ ret' = [op |-> "loadTopology", val |-> "threw"]
       /\ UNCHANGED <<graphVars, gatewayVars,
                      controllerVars, obs>>
  ELSE /\ nodes' = data.nodes
       /\ links' = data.links
       /\ ret' = [op |-> "loadTopology", val |-> "loaded"]
       /\ UNCHANGED <<controllerVars, obs>>

NextLoad ==
  \/ \E data \in TopologyFiles : LoadTopology(data)
  \/ \E src \in DOMAIN nodes, dst \in DOMAIN nodes,
        e \in {None} \cup {Some({x}) : x \in DOMAIN nodes} :
       QueryShortestPath(src, dst, e)

SpecLoad == InitLoad /\ [][NextLoad]_vars

(***************************************************************************)
(* One path degrades, is rebalanced away from, and is then fed a constant  *)
(* calm latency while a stepper calls gradualRevert and applies the steps  *)
(* of each returned schedule in order.  The stepper works through one      *)
(* schedule at a time and calls gradualRevert again when it has applied    *)
(* the last step; schedules holds what is left of the schedule.            *)
(***************************************************************************)
CalmSamples == SelectSeq(pathHist[RevertPath],
                         LAMBDA x : x \in RevertCalmLatencies)

\* a sample of the rising phase, before any calm sample
RevertHighSample ==
  \E x \in RevertHighLatencies :
    /\ Len(pathHist[RevertPath]) < 2
    /\ CalmSamples = <<>>
    /\ AddBatchLatency(x, Some(RevertPath))

\* a sample of the calm phase: the same latency every time
RevertCalmSample ==
  \E x \in RevertCalmLatencies :
    /\ Len(aggHist) < MaxRevertSamples
    /\ \A i \in DOMAIN CalmSamples : CalmSamples[i] = x
    /\ AddBatchLatency(x, Some(RevertPath))

\* the hold timer or the stability timer of the path is still running
TimerRunning ==
  LET m == paths[RevertPath]
  IN  \/ m.status = "degraded"
         /\ now - m.lastFailureTime <= RECOVERY_HOLD_TIME_MS
      \/ m.status = "recovering"
         /\ now - m.lastRecoveryTime <= STABILITY_TIME_MS

\* time passes; it is followed only while a timer of the path is running,
\* later instants change nothing the controller reads
RevertTick ==
  \E d \in TickSteps : TimerRunning /\ Advance(d, MaxRevertTime)

RevertRebalance == \E s \in EdgeNodes, t \in FsmTargets : RebalancePaths(s, t)

\* the stepper, with no step left to apply, calls gradualRevert
RevertCall == schedules = {} /\ GradualRevert(TRUE)

\* the stepper applies the next step of the schedule it holds
ApplyNextStep ==
  \E sc \in schedules :
    /\ paths' = ApplyLoads(paths, Head(sc.steps).distribution)
    /\ ret' = [op |-> "applyTransitionStep", val |-> Head(sc.steps)]
    /\ schedules' = (schedules \ {sc}) \cup
                      (IF Len(sc.steps) = 1 THEN {}
                       ELSE {[sc EXCEPT !.steps = Tail(@)]})
    /\ UNCHANGED <<graphVars, gatewayVars,
                   now, latencyWindow, ewma, slope, triggerVars,
                   optimalDistribution, aggHist, pathHist, obs>>

NextRevert ==
  \/ RevertHighSample
  \/ RevertCalmSample
  \/ RevertTick
  \/ RevertRebalance
  \/ RevertCall
  \/ ApplyNextStep

\* a calm sample can be recorded: every sample changes aggHist
CalmSampleEnabled ==
  \E x \in RevertCalmLatencies :
    /\ Len(aggHist) < MaxRevertSamples
    /\ \A i \in DOMAIN CalmSamples : CalmSamples[i] = x

\* the stepper's gradualRevert call is possible and changes the state
RevertCallEnabled ==
  LET ps == RecoveredScan(paths)
      sc == Schedule(ps)
  IN  /\ schedules = {}
      /\ \/ ps # paths
         \/ sc # None
         \/ ret # [op |-> "gradualRevert", val |-> sc]

\* Samples keep arriving, time passes, gradualRevert is called again and
\* again and the stepper applies the steps it holds: weak fairness of the
\* four actions.  For the sampling and the gradualRevert action the
\* condition is written out by its definition, []<>~ENABLED <<A>>_vars \/
\* []<><<A>>_vars, with the enabling condition as the state predicate above.
SpecRevert ==
  /\ Init
  /\ [][NextRevert]_vars
  /\ WF_vars(RevertTick)
  /\ WF_vars(ApplyNextStep)
  /\ ([]<>(~CalmSampleEnabled) \/ []<><<RevertCalmSample>>_vars)
  /\ ([]<>(~RevertCallEnabled) \/ []<><<RevertCall>>_vars)

(***************************************************************************)
(* Rebalances on a topology where the alternatives can run out.            *)
(***************************************************************************)
InitDetour ==
  /\ nodes = TopologyDetour.nodes
  /\ links = TopologyDetour.links
  /\ InitFields
  /\ InitRegistry(DetourNodeIds, PairLoads)

NextDetour ==
  \/ \E x \in Latencies, p \in PairPaths :
       Len(aggHist) < MaxDetourSamples /\ AddBatchLatency(x, Some(p))
  \/ \E s \in EdgeNodes, t \in CloudNodes : RebalancePaths(s, t)

SpecDetour == InitDetour /\ [][NextDetour]_vars

(***************************************************************************)
(* The controller under samples that never exceed ewmaMaxMs.               *)
(***************************************************************************)
NextCalm ==
  \/ \E d \in TriggerTickSteps : Advance(d, MaxTriggerTime)
  \/ \E x \in CalmLatencies, p \in CalmPaths :
       Len(aggHist) < MaxCalmSamples /\ AddBatchLatency(x, p)
  \/ DetectDegradedPaths
  \/ \E s \in EdgeNodes, t \in FsmTargets : RebalancePaths(s, t)
  \/ CheckFailoverTrigger
  \/ GradualRevert(TRUE)

SpecCalm == Init /\ [][NextCalm]_vars

(***************************************************************************)
(* One path under a constant high latency, the others under a low one,     *)
(* with rebalancePaths called as the ingress does on every batch.  A       *)
(* path's statistics depend only on its own samples; the low batches are   *)
(* ingested after the high ones, which keeps the aggregate ewma (a         *)
(* fraction over a power of ten per mixed sample) within the integers.     *)
(***************************************************************************)
HighSample ==
  \E x \in HighLatencies, p \in HighPaths :
    Len(pathHist[p]) < MaxHighSamples /\ AddBatchLatency(x, Some(p))

LowSample ==
  \E x \in LowLatencies, p \in LowPaths :
    /\ \A h \in HighPaths : Len(pathHist[h]) >= MaxHighSamples
    /\ Len(pathHist[p]) < MaxLowSamples
    /\ AddBatchLatency(x, Some(p))

StreamTick == \E d \in TriggerTickSteps : Advance(d, MaxStreamTime)

StreamRebalance == \E s \in EdgeNodes, t \in FsmTargets : RebalancePaths(s, t)

NextStream ==
  \/ HighSample
  \/ LowSample
  \/ StreamTick
  \/ StreamRebalance

SpecStream == Init /\ [][NextStream]_vars

(***************************************************************************)
(* Properties.                                                             *)
(***************************************************************************)
TotalLoad == RSumSeq(PathOrder, Loads(paths))

\* C1: in the state right after every rebalancePaths call that returns a
\* distribution and after every applyTransitionStep (steps of any schedule
\* returned earlier, in any order and interleaved with rebalances and
\* samples), the loadPercentage values of the registered paths sum to 100
\* within 0.01.
C1_LoadSumsTo100 ==
  (\/ ret.op = "rebalancePaths" /\ ret.val # None
   \/ ret.op = "applyTransitionStep")
    => RLe(RAbs(RSub(TotalLoad, R(100))), <<1, 100>>)

\* a revert step applied while a path is degraded has lifted that path off
\* the residual load a rebalance had pinned it to
C1_Witness ==
  /\ ret.op = "applyTransitionStep"
  /\ \E p \in DOMAIN paths :
       /\ paths[p].status = "degraded"
       /\ RGt(paths[p].loadPercentage, R(ResidualLoad))
  /\ TotalLoad = R(100)

\* C2: a path's status becomes recovering only from degraded and becomes
\* healthy only from recovering; no step takes a path from degraded to
\* healthy.
C2_StatusSteps ==
  [][\A p \in DOMAIN paths :
       /\ (paths'[p].status = "recovering" /\ paths[p].status # "recovering")
            => paths[p].status = "degraded"
       /\ (paths'[p].status = "healthy" /\ paths[p].status # "healthy")
            => paths[p].status = "recovering"]_vars

\* a path that has been degraded, then recovering, is healthy again
C2_Witness ==
  \E p \in DOMAIN paths :
    /\ paths[p].status = "healthy"
    /\ paths[p].lastFailureTime > 0
    /\ paths[p].lastRecoveryTime > paths[p].lastFailureTime

\* the recurrence e1 = x1, ek = alpha * xk + (1 - alpha) * e(k-1)
RECURSIVE EwmaRecurrence(_)
EwmaRecurrence(xs) ==
  IF Len(xs) = 1 THEN R(xs[1])
  ELSE RAdd(RMul(Alpha, R(xs[Len(xs)])),
            RMul(RSub(R(1), Alpha), EwmaRecurrence(SubSeq(xs, 1, Len(xs) - 1))))

\* C3: after the samples x1..xk recorded since construction or the last
\* reset (zeros included), the aggregate ewma, and each path's ewma over that
\* path's samples, equals the recurrence e1 = x1,
\* ek = alpha * xk + (1 - alpha) * e(k-1).
C3_EwmaIsRecurrence ==
  /\ aggHist # <<>> => ewma = EwmaRecurrence(aggHist)
  /\ \A p \in DOMAIN paths :
       pathHist[p] # <<>> => paths[p].ewma = EwmaRecurrence(pathHist[p])

\* the last min(Len(xs), n) elements of xs, in order
LastN(xs, n) ==
  IF Len(xs) <= n THEN xs ELSE SubSeq(xs, Len(xs) - n + 1, Len(xs))

\* C4: the aggregate ring and every path's ring hold at most windowSize
\* samples, and exactly the most recent min(n, windowSize) of the n samples
\* recorded, in arrival order.
C4_RingsHoldMostRecent ==
  /\ Len(latencyWindow) <= WindowSize
  /\ latencyWindow = LastN(aggHist, WindowSize)
  /\ \A p \in DOMAIN paths :
       /\ Len(paths[p].latencyWindow) <= WindowSize
       /\ paths[p].latencyWindow = LastN(pathHist[p], WindowSize)

\* more samples than the ring holds were recorded, on the aggregate and on a
\* path: the oldest was evicted
C4_Witness ==
  /\ Len(aggHist) > WindowSize
  /\ Len(latencyWindow) = WindowSize
  /\ \E p \in DOMAIN paths : Len(pathHist[p]) > WindowSize

\* C5: the bottleneck list rebalancePaths obtains from findCommonNodes holds
\* neither the first nor the last node of a degraded path; for the degraded
\* paths [1,9,19] and [1,9,20] it is [9].
C5_BottlenecksExcludeEndpoints ==
  ret.op = "rebalancePaths" =>
    /\ \A i \in 1 .. Len(ret.degradedPaths) :
         /\ ret.degradedPaths[i][1] \notin SeqToSet(ret.bottleneckNodes)
         /\ ret.degradedPaths[i][Len(ret.degradedPaths[i])]
              \notin SeqToSet(ret.bottleneckNodes)
    /\ ret.degradedPaths = << <<1, 9, 19>>, <<1, 9, 20>> >>
         => ret.bottleneckNodes = <<9>>

\* C6: any two different entries of the list findKShortestPaths returns for
\* k >= 2 share no node other than src and dst.
C6_PathsShareOnlyEndpoints ==
  (ret.op = "findKShortestPaths" /\ ret.k >= 2) =>
    \A i, j \in 1 .. Len(ret.val) :
      i # j => (SeqToSet(ret.val[i]) \cap SeqToSet(ret.val[j]))
                 \subseteq {ret.src, ret.dst}

RECURSIVE SumOver(_, _)
SumOver(S, f) ==
  IF S = {} THEN 0
  ELSE LET i == CHOOSE x \in S : TRUE IN f[i] + SumOver(S \ {i}, f)

\* C8: after every addBatchLatency the aggregate slope is the least-squares
\* gradient of the ring against the 0-based ring index, slope * (n * Sum(x^2)
\* - (Sum x)^2) = n * Sum(x*y) - Sum(x) * Sum(y), and 0 under 2 samples; an
\* arithmetic ring of step d has slope d, a constant ring slope 0.
C8_SlopeIsLeastSquares ==
  ret.op = "addBatchLatency" =>
    LET n   == Len(latencyWindow)
        I   == 1 .. n
        sx  == SumOver(I, [i \in I |-> i - 1])
        sy  == SumOver(I, [i \in I |-> latencyWindow[i]])
        sxy == SumOver(I, [i \in I |-> (i - 1) * latencyWindow[i]])
        sxx == SumOver(I, [i \in I |-> (i - 1) * (i - 1)])
    IN  /\ n < 2 => slope = RZero
        /\ n >= 2 => RMul(slope, R(n * sxx - sx * sx)) = R(n * sxy - sx * sy)
        /\ n >= 2 =>
             LET d == latencyWindow[2] - latencyWindow[1]
             IN  (\A i \in 1 .. (n - 1) :
                    latencyWindow[i + 1] - latencyWindow[i] = d) => slope = R(d)

\* a full ring that rises by a constant step
C8_Witness ==
  /\ ret.op = "addBatchLatency"
  /\ Len(latencyWindow) = WindowSize
  /\ \A i \in 1 .. (Len(latencyWindow) - 1) :
       latencyWindow[i + 1] - latencyWindow[i] = 100
  /\ slope = R(100)

\* C9: injectNodeLatencyFault(n, d) followed by removeNodeLatencyFault(n)
\* leaves every link incident to n with the delay_ms it had right before the
\* injection, whatever faults are active on other nodes (stated here for a
\* node n that had no fault of its own when the injection was made).
C9_InjectRemoveRestores ==
  (obs.undone # None /\ obs.undone[1].nodeId \notin obs.undone[1].active) =>
    \A i \in DOMAIN links :
      (links[i].u = obs.undone[1].nodeId \/ links[i].v = obs.undone[1].nodeId)
        => links[i].delay_ms = obs.undone[1].delay_ms[i]

\* C10: when checkFailoverTrigger first saw the latency predicate true at t0
\* and the predicate has been true ever since, a call before t0 + holdSec
\* does not return reason latency_drift and a call after t0 + holdSec
\* returns triggered with reason latency_drift.
C10_HoldDebounce ==
  (ret.op = "checkFailoverTrigger" /\ obs.stayed) =>
    /\ ret.at < obs.t0[1] + HoldSec * 1000 => ret.reason # "latency_drift"
    /\ ret.at > obs.t0[1] + HoldSec * 1000
         => ret.triggered /\ ret.reason = "latency_drift"

\* an evaluation made after the hold has expired, the predicate having
\* stayed true, fires
C10_Witness ==
  /\ ret.op = "checkFailoverTrigger"
  /\ obs.stayed
  /\ ret.at > obs.t0[1] + HoldSec * 1000
  /\ ret.triggered
  /\ ret.reason = "latency_drift"

\* C11: when every registered path is degraded, rebalancePaths leaves each
\* of the n registered paths with loadPercentage 100/n.
C11_AllDegradedEvenSplit ==
  (ret.op = "rebalancePaths"
     /\ Len(ret.degradedPaths) = Cardinality(DOMAIN paths)) =>
    \A p \in DOMAIN paths :
      paths[p].loadPercentage = Rat(100, Cardinality(DOMAIN paths))

\* the even split 100/n over the registered paths
UniformSplit == [p \in DOMAIN paths |-> Rat(100, Cardinality(DOMAIN paths))]

\* C12: when every registered path is still degraded after the recovery
\* check and some load is more than 1 away from 100/n, gradualRevert returns
\* a schedule whose last step is the even split 100/n.
C12_RevertTargetsEvenSplit ==
  (ret.op = "gradualRevert"
     /\ (\A p \in DOMAIN paths : paths[p].status = "degraded")
     /\ (\E q \in DOMAIN paths :
           RGt(RAbs(RSub(paths[q].loadPercentage, UniformSplit[q])), R(1)))) =>
    /\ ret.val # None
    /\ ret.val[1].steps[NumSteps].distribution = UniformSplit

\* C13: with paths 0,1,2 registered at 50/30/20, path 0 fed ten samples
\* of 150 ms and paths 1 and 2 samples of 50 ms, a rebalancePaths call made
\* when path 0's ewma has been above ewmaMaxMs for holdSec leaves the loads
\* 5, 57 and 38.
C13_HighPathRebalanced ==
  (/\ ret.op = "rebalancePaths"
   /\ pathHist[0] = [i \in 1 .. 10 |-> 150]
   /\ \A p \in {1, 2} :
        pathHist[p] # <<>> /\ \A i \in DOMAIN pathHist[p] : pathHist[p][i] = 50
   /\ 0 \in DOMAIN obs.pathSince
   /\ now - obs.pathSince[0] >= HoldSec * 1000) =>
    /\ paths[0].loadPercentage = R(5)
    /\ paths[1].loadPercentage = R(57)
    /\ paths[2].loadPercentage = R(38)

\* C14: a step that turns a recovering path healthy ends in a state where
\* the path's ewma is under 0.6*ewmaMaxMs and more than STABILITY_TIME_MS
\* has passed since its lastRecoveryTime.
C14_HealthyOnlyAfterStability ==
  [][\A p \in DOMAIN paths :
       (paths[p].status = "recovering" /\ paths'[p].status = "healthy") =>
         /\ RLt(paths'[p].ewma, Rat(6 * EwmaMaxMs, 10))
         /\ now' - paths'[p].lastRecoveryTime > STABILITY_TIME_MS]_vars

\* current + (target - current) * i/5 for path p
Interpolated(current, target, i, p) ==
  RAdd(current[p], RDiv(RMul(RSub(target[p], current[p]), R(i)), R(5)))

\* the interpolation of step i scaled to sum 100
Renormalised(current, target, i) ==
  LET total == RSumSeq(PathOrder,
                       [p \in DOMAIN current |-> Interpolated(current, target, i, p)])
  IN  [p \in DOMAIN current |->
         RDiv(RMul(Interpolated(current, target, i, p), R(100)), total)]

\* C15: a schedule returned by gradualRevert has exactly 5 steps, step i at
\* startTime + i*(7000/5) ms (strictly increasing, the last at startTime +
\* 7000); step i is the interpolation current + (target - current)*i/5
\* renormalised to sum 100, and with a target summing to 100 the fifth step
\* is within 0.01 of the target.
C15_ScheduleShape ==
  (ret.op = "gradualRevert" /\ ret.val # None) =>
    LET sc      == ret.val[1]
        current == Loads(paths)
        target  == optimalDistribution
    IN  /\ DOMAIN sc.steps = 1 .. 5
        /\ sc.startTime = now
        /\ \A i \in 1 .. 5 :
             /\ 5 * sc.steps[i].timestamp = 5 * sc.startTime + i * 7000
             /\ i > 1 => sc.steps[i].timestamp > sc.steps[i - 1].timestamp
             /\ sc.steps[i].distribution = Renormalised(current, target, i)
        /\ sc.steps[5].timestamp = sc.startTime + 7000
        /\ TotalOf(target) = R(100) =>
             \A p \in DOMAIN target :
               RLe(RAbs(RSub(sc.steps[5].distribution[p], target[p])),
                   <<1, 100>>)

\* a schedule from the loads 5/57/38 whose fifth step is 50/30/20
C15_Witness ==
  /\ ret.op = "gradualRevert"
  /\ ret.val # None
  /\ Loads(paths) = (0 :> R(5)) @@ (1 :> R(57)) @@ (2 :> R(38))
  /\ ret.val[1].steps[5].distribution = (0 :> R(50)) @@ (1 :> R(30)) @@ (2 :> R(20))

\* C16: when POST /ingest is handled in physical routing with the gateway
\* in cold mode and the latency predicate has been true for holdSec, a
\* failover is under way or done whose spinUpDelayMs lies in [400,700], and
\* the incident it emits has mttr >= spinUpDelayMs.
C16_ColdFailoverIncident ==
  (/\ ret.op = "ingest"
   /\ ret.mode = "cold"
   /\ obs.since # None
   /\ now - obs.since[1] >= HoldSec * 1000) =>
    \/ /\ pending # None
       /\ pending[1].mode = "cold"
       /\ pending[1].spinUpDelayMs >= 400
       /\ pending[1].spinUpDelayMs <= 700
    \/ \E i \in DOMAIN incidents :
         /\ incidents[i].mode = "cold"
         /\ incidents[i].spinUpDelayMs >= 400
         /\ incidents[i].spinUpDelayMs <= 700
         /\ incidents[i].mttr >= incidents[i].spinUpDelayMs

\* the least and the greatest sample recorded
LoSample == CHOOSE x \in SeqToSet(aggHist) : \A y \in SeqToSet(aggHist) : x <= y

HiSample == CHOOSE x \in SeqToSet(aggHist) : \A y \in SeqToSet(aggHist) : x >= y

Linked(m, n) ==
  \E i \in DOMAIN links :
    \/ links[i].u = m /\ links[i].v = n
    \/ links[i].u = n /\ links[i].v = m

\* the nodes that walks from src reach when every node they pass through,
\* src aside, lies outside E; dst may be reached even if it lies in E
RECURSIVE ReachAvoiding(_, _, _, _)
ReachAvoiding(S, src, dst, E) ==
  LET more == {n \in DOMAIN nodes \ S :
                 /\ n \notin E \/ n = dst
                 /\ \E m \in S : (m = src \/ m \notin E) /\ Linked(m, n)}
  IN  IF more = {} THEN S ELSE ReachAvoiding(S \cup more, src, dst, E)

\* the exclusion set of the last query
QueryExcluded ==
  IF ret.op = "findKShortestPaths" THEN ret.excludeNodes
  ELSE IF ret.excludeNodes = None THEN {} ELSE ret.excludeNodes[1]

\* the paths the last query returned
QueryPaths ==
  IF ret.op = "findKShortestPaths" THEN SeqToSet(ret.val)
  ELSE IF ret.val = None THEN {} ELSE {ret.val[1]}

\* C18: no path returned by findShortestPath or findKShortestPaths holds a
\* node of the exclusion set E other than src and dst, and a path is
\* returned whenever dst can be reached from src through nodes outside E,
\* whether or not src and dst are listed in E.
C18_ExclusionRespected ==
  ret.op \in {"findShortestPath", "findKShortestPaths"} =>
    /\ \A path \in QueryPaths :
         /\ PathInner(path) \cap QueryExcluded = {}
         /\ (SeqToSet(path) \ {ret.src, ret.dst}) \cap QueryExcluded = {}
    /\ ret.dst \in ReachAvoiding({ret.src}, ret.src, ret.dst, QueryExcluded)
         => QueryPaths # {}

\* a query whose exclusion set lists src, dst and a core node, answered
\* with a path through the other core node
C18_Witness ==
  /\ ret.op = "findKShortestPaths"
  /\ {ret.src, ret.dst} \subseteq QueryExcluded
  /\ QueryExcluded \cap CoreNodes # {}
  /\ ret.src \in EdgeNodes
  /\ ret.dst \in CloudNodes
  /\ \E path \in QueryPaths : Len(path) = 3 /\ path[2] \in CoreNodes

\* the paths that meet the degradation predicate
MeetingPredicate == {p \in DOMAIN paths : MeetsDegraded(paths[p])}

\* C19: a rebalancePaths call that finds a non-empty proper subset D of the
\* paths meeting the degradation predicate and returns a distribution
\* leaves each path of D at load 5 and every other path p at
\* load(p) / (sum of the loads outside D) * (100 - 5*|D|), the loads being
\* those before the call.
C19_ProportionalRebalance ==
  [][LET D      == MeetingPredicate
         others == SelectSeq(PathOrder, LAMBDA p : p \notin D)
         total  == RSumSeq(others, Loads(paths))
     IN  (/\ ret'.op = "rebalancePaths"
          /\ ret'.val # None
          /\ D # {}
          /\ D # DOMAIN paths) =>
           \A p \in DOMAIN paths :
             paths'[p].loadPercentage =
               IF p \in D THEN R(5)
               ELSE RMul(RDiv(paths[p].loadPercentage, total),
                         R(100 - 5 * Cardinality(D)))]_vars

\* path 1 alone degraded: the call leaves 5% on it and splits 95% between
\* paths 0 and 2 in the ratio 50:20
C19_Witness ==
  /\ ret.op = "rebalancePaths"
  /\ ret.val # None
  /\ Len(ret.degradedPaths) = 1
  /\ paths[1].loadPercentage = R(5)
  /\ paths[0].loadPercentage = Rat(50 * 95, 70)
  /\ paths[2].loadPercentage = Rat(20 * 95, 70)

\* C20: the step in which a forward to the first-hop node fails records one
\* more latency sample in the controller and starts no failover.
C20_FailedForwardIsSampled ==
  [][(ret'.op = "forward" /\ ret'.val = "failed") =>
       /\ Len(aggHist') = Len(aggHist) + 1
       /\ incidents' = incidents
       /\ failoverInProgress' = failoverInProgress]_vars

\* the valid alternatives rebalancePaths finds for the paths that meet the
\* degradation predicate
ValidAlternatives(s, t) ==
  LET ids == DegradedIds(paths)
      bottleneckNodes == FindCommonNodes([i \in 1 .. Len(ids) |-> paths[ids[i]].nodeIds])
  IN  SelectSeq(FindKShortestPaths(s, t, KAlternatives, SeqToSet(bottleneckNodes)),
                IsValidPath)

\* C21: a rebalancePaths call that finds a degraded path and for which the
\* k-disjoint query returns no path, or no path passing isValidPath, returns
\* null and leaves every path's loadPercentage as it was.
C21_NoAlternativeKeepsLoads ==
  [][\A s \in EdgeNodes, t \in CloudNodes :
       (/\ RebalancePaths(s, t)
        /\ MeetingPredicate # {}
        /\ ValidAlternatives(s, t) = <<>>) =>
         /\ ret'.val = None
         /\ Loads(paths') = Loads(paths)]_vars

\* a call that found path 0 degraded, excluded its core node and returned
\* null for want of a valid alternative
C21_Witness ==
  /\ ret.op = "rebalancePaths"
  /\ ret.degradedPaths = << <<1, 9, 19>> >>
  /\ 9 \in SeqToSet(ret.bottleneckNodes)
  /\ ret.val = None
  /\ paths[0].status = "degraded"
  /\ Loads(paths) = optimalDistribution

\* C22: a topology whose load succeeded has a path from some edge-tier node
\* to some cloud-tier node.
C22_LoadedIsConnected ==
  (ret.op = "loadTopology" /\ ret.val = "loaded") =>
    \E e \in EdgeNodes, c \in CloudNodes : c \in ReachAvoiding({e}, e, c, {})

\* every path's load is within one percentage point of its optimal load
NearOptimal ==
  \A p \in DOMAIN paths :
    RLe(RAbs(RSub(paths[p].loadPercentage, optimalDistribution[p])), R(1))

\* the path is degraded and pinned to the residual load
PinnedDegraded ==
  /\ paths[RevertPath].status = "degraded"
  /\ paths[RevertPath].loadPercentage = R(ResidualLoad)

\* C23: a degraded path pinned to 5% that from then on is fed a constant
\* latency below 0.6*ewmaMaxMs, with gradualRevert called again and again and
\* every returned step applied in order, becomes recovering, then healthy,
\* and the distribution returns to within one point of the optimal one.
C23_CalmPathReverts ==
  /\ PinnedDegraded ~> (paths[RevertPath].status = "recovering")
  /\ PinnedDegraded ~> (paths[RevertPath].status = "healthy" /\ NearOptimal)

C23_Witness ==
  /\ paths[RevertPath].status = "healthy"
  /\ NearOptimal
  /\ Len(CalmSamples) >= 3
  /\ ret.op = "applyTransitionStep"

\* C24: checkFailoverTrigger returns reason latency_drift only when the
\* latency predicate has been true in every state since the hold timer was
\* started, and for at least holdSec since it last became true.
C24_DriftNeedsUnbrokenHold ==
  (ret.op = "checkFailoverTrigger" /\ ret.reason = "latency_drift") =>
    /\ obs.stayed
    /\ obs.since # None
    /\ ret.at - obs.since[1] >= HoldSec * 1000

\* the latency predicate has been true in every state since an evaluation
\* first saw it true, at least holdSec before the latest evaluation
LatencyHeld ==
  /\ obs.stayed
  /\ obs.t0 # None
  /\ ret.at - obs.t0[1] >= HoldSec * 1000

\* C25: checkFailoverTrigger returns triggered exactly when the latency
\* predicate has held for holdSec or a known node is under resource pressure,
\* and a triggered result has reason resource_pressure exactly when the
\* latency hold has not expired.
C25_TriggerIff ==
  ret.op = "checkFailoverTrigger" =>
    /\ ret.triggered <=> (LatencyHeld \/ ResourcePressure)
    /\ ret.triggered => (ret.reason = "resource_pressure" <=> ~LatencyHeld)

\* the number of paths of the list D in which node n occurs
Occurrences(D, n) ==
  Cardinality({i \in DOMAIN D : \E j \in DOMAIN D[i] : D[i][j] = n})

\* C26: findCommonNodes(D) returns exactly the nodes that occur in at least
\* max(2, ceil(0.5*|D|)) of the paths of D, each once, ordered by occurrence
\* count descending; for a single path it returns no node.
C26_CommonNodesByThreshold ==
  ret.op = "findCommonNodes" =>
    LET D == ret.paths
        out == ret.val
        threshold == IF (Len(D) + 1) \div 2 > 2 THEN (Len(D) + 1) \div 2 ELSE 2
    IN  /\ SeqToSet(out) =
             {n \in DOMAIN nodes : Occurrences(D, n) >= threshold}
        /\ \A i, j \in DOMAIN out :
             i < j => /\ out[i] # out[j]
                      /\ Occurrences(D, out[i]) >= Occurrences(D, out[j])
        /\ Len(D) = 1 => out = <<>>

\* C27: whatever the node ids, a sequence returned by
\* findShortestPath(src, dst, E) starts at src, ends at dst, visits no node
\* twice and steps along links only; nothing is returned exactly when dst
\* cannot be reached from src through intermediate nodes outside E.
C27_ShortestPathIsSimpleWalk ==
  ret.op = "findShortestPath" =>
    /\ ret.val # None =>
         LET path == ret.val[1]
         IN  /\ path[1] = ret.src
             /\ path[Len(path)] = ret.dst
             /\ \A i, j \in DOMAIN path : i # j => path[i] # path[j]
             /\ \A i \in 1 .. Len(path) - 1 : Linked(path[i], path[i + 1])
    /\ ret.val = None <=>
         ret.dst \notin ReachAvoiding({ret.src}, ret.src, ret.dst, QueryExcluded)

\* more than the delay of any path of the topologies
Unreached == 1000000

Least(S) == CHOOSE x \in S : \A y \in S : x <= y

\* the least delay_ms of a link joining m and n
LinkDelay(m, n) ==
  Least({links[i].delay_ms : i \in {k \in DOMAIN links :
           \/ links[k].u = m /\ links[k].v = n
           \/ links[k].u = n /\ links[k].v = m}})

\* the least total delay of a walk of at most k links from src to each node,
\* its intermediate nodes outside E and other than dst
RECURSIVE LeastDelays(_, _, _, _)
LeastDelays(k, src, dst, E) ==
  IF k = 0
  THEN [n \in DOMAIN nodes |-> IF n = src THEN 0 ELSE Unreached]
  ELSE LET d == LeastDelays(k - 1, src, dst, E)
       IN  [n \in DOMAIN nodes |->
              Least({d[n]} \cup
                    {d[m] + LinkDelay(m, n) :
                       m \in {x \in DOMAIN nodes :
                                /\ Linked(x, n)
                                /\ d[x] < Unreached
                                /\ x # dst
                                /\ x = src \/ x \notin E}})]

\* the total delay_ms along a path
RECURSIVE PathDelay(_)
PathDelay(path) ==
  IF Len(path) < 2 THEN 0
  ELSE LinkDelay(path[1], path[2]) + PathDelay(Tail(path))

\* C28: with non-negative link delays, delay 0 included, the path returned
\* by findShortestPath(src, dst, E) has the least total delay_ms among the
\* paths from src to dst whose intermediate nodes avoid E.
C28_ShortestPathIsMinimal ==
  (ret.op = "findShortestPath" /\ ret.val # None) =>
    PathDelay(ret.val[1]) =
      LeastDelays(Cardinality(DOMAIN nodes), ret.src, ret.dst,
                  QueryExcluded)[ret.dst]

\* the delays of the links when the topology was loaded
LoadDelays ==
  DelaysOf((CHOOSE t \in GraphTopologies : t.nodes = nodes).links)

\* C29: under any sequence of fault injections (positive added latency) and
\* removals no link's delay_ms is below its load-time delay, a call changes
\* no link that is not incident to its node, and when no node is left with a
\* fault every link has its load-time delay, a load-time delay of 0 included.
C29_FaultsLeaveNoTrace ==
  /\ [](\A i \in DOMAIN links :
          /\ links[i].delay_ms >= LoadDelays[i]
          /\ obs.active = {} => links[i].delay_ms = LoadDelays[i])
  /\ [][ret'.op \in {"injectNodeLatencyFault", "removeNodeLatencyFault"} =>
          \A i \in DOMAIN links :
            (links[i].u # ret'.nodeId /\ links[i].v # ret'.nodeId)
              => links'[i] = links[i]]_vars

\* C30: a rebalancePaths call that applies a new distribution appends one
\* incident of kind failover, resets the aggregate ewma, slope and latency
\* window and clears triggerStartTime.
C30_RebalanceLogsAndResets ==
  [][\A s \in EdgeNodes, t \in RebalanceTargets :
       (/\ RebalancePaths(s, t)
        /\ ret'.val # None
        /\ Loads(paths') = ret'.val[1]) =>
         /\ Len(incidents') = Len(incidents) + 1
         /\ incidents'[Len(incidents')].kind = "failover"
         /\ ewma' = RZero
         /\ slope' = RZero
         /\ latencyWindow' = <<>>
         /\ triggerStartTime' = None]_vars

\* an executeFailover call runs to its end in this step: a call in a mode
\* without spin-up that the guard lets through, or a suspended call resuming
FailoverCompletes ==
  \/ ResumeFailover
  \/ \E mode \in FailoverModes \ {"cold"} :
       ~failoverInProgress /\ ExecuteFailover(mode, "n1->n2->n3", "n1->n3")

\* C31: an executeFailover call that the in-progress guard lets through
\* appends, when it completes, exactly one incident of kind failover, of
\* severity high exactly when the aggregate ewma at completion exceeds
\* 1.5*ewmaMaxMs and medium otherwise, with mttr = completion time -
\* impactedBatchTime >= 0, and leaves the window empty, ewma and slope 0,
\* triggerStartTime and impactedBatchTime null and failoverInProgress false;
\* until it completes it appends nothing.
C31_FailoverAccounting ==
  [][/\ FailoverCompletes =>
          LET impacted == IF impactedBatchTime = None THEN now
                          ELSE impactedBatchTime[1]
              incident == incidents'[Len(incidents')]
          IN  /\ Len(incidents') = Len(incidents) + 1
              /\ SubSeq(incidents', 1, Len(incidents)) = incidents
              /\ incident.kind = "failover"
              /\ incident.severity =
                   (IF 2 * ewma[1] > 3 * EwmaMaxMs * ewma[2]
                    THEN "high" ELSE "medium")
              /\ incident.mttr = now - impacted
              /\ incident.mttr >= 0
              /\ latencyWindow' = <<>>
              /\ ewma' = RZero
              /\ slope' = RZero
              /\ triggerStartTime' = None
              /\ impactedBatchTime' = None
              /\ failoverInProgress' = FALSE
     /\ (~failoverInProgress /\ failoverInProgress') =>
          /\ incidents' = incidents
          /\ ret'.op = "executeFailover"]_vars

\* a cold failover completed after its spin-up with the aggregate ewma above
\* 1.5*ewmaMaxMs
C31_Witness ==
  /\ ret = [op |-> "executeFailover", val |-> "done"]
  /\ Len(incidents) = 1
  /\ incidents[1].mode = "cold"
  /\ incidents[1].severity = "high"
  /\ incidents[1].mttr > 0
  /\ ewma = RZero


C33_DispatchUsesRegistryLoads ==
  (ret.op = "dispatch") =>
    \A i \in DOMAIN ret.candidates :
      LET candidate == ret.candidates[i]
      IN  /\ candidate.pathId \in PathIds
          /\ R(candidate.loadPercentage) = paths[candidate.pathId].loadPercentage


(***************************************************************************)
(* C34: in virtual routing the measured latency of every dispatched batch  *)
(* is appended to the aggregate ring and to the ring of the path the batch *)
(* was dispatched on, whose ewma is updated with it, so that a path's      *)
(* degradation can be reported by detectDegradedPaths.                     *)
(***************************************************************************)
C34_DispatchedLatencyReachesPath ==
  [][\A i \in DOMAIN inflight :
       (FiresNext(i) /\ inflight' = RemoveAt(inflight, i)) =>
         LET p == inflight[i].pathId
             latencyMs == now - inflight[i].batchStartTime
         IN  /\ aggHist' = Append(aggHist, latencyMs)
             /\ p \in PathIds
             /\ pathHist'[p] = Append(pathHist[p], latencyMs)
             /\ paths'[p].ewma = NextEwma(paths[p].ewma, latencyMs)]_vars


(***************************************************************************)
(* C35: of two batches dispatched on the same path the one that arrived    *)
(* first has its latency sample appended and folded into the EWMA first,   *)
(* also when a latency fault is injected or removed between the arrivals.  *)
(***************************************************************************)
C35_SamplesInArrivalOrder ==
  [][\A i \in DOMAIN inflight :
       (FiresNext(i) /\ inflight' = RemoveAt(inflight, i)) =>
         \A j \in 1 .. (i - 1) : inflight[j].pathId # inflight[i].pathId]_vars


(***************************************************************************)
(* C36: addBatchLatency(latency, p) changes, besides the aggregate ring,   *)
(* ewma and slope, only the ring, ewma, slope, status and lastFailureTime  *)
(* of the registered path p; every other path's metrics, every             *)
(* loadPercentage and the optimal distribution stay as they are, and with  *)
(* an unregistered or omitted path id no path changes at all.              *)
(***************************************************************************)
C36_SampleFrame ==
  [][(Len(aggHist') = Len(aggHist) + 1) =>
       LET touched == {p \in PathIds : pathHist'[p] # pathHist[p]}
       IN  /\ ret'.op = "addBatchLatency"
           /\ DOMAIN paths' = DOMAIN paths
           /\ Cardinality(touched) <= 1
           /\ \A p \in PathIds \ touched : paths'[p] = paths[p]
           /\ \A p \in touched :
                /\ pathHist'[p] =
                     Append(pathHist[p], aggHist'[Len(aggHist')])
                /\ paths'[p] =
                     [paths[p] EXCEPT
                        !.latencyWindow = paths'[p].latencyWindow,
                        !.ewma = paths'[p].ewma,
                        !.slope = paths'[p].slope,
                        !.status = paths'[p].status,
                        !.lastFailureTime = paths'[p].lastFailureTime]
           /\ optimalDistribution' = optimalDistribution
           /\ UNCHANGED <<nodeHealth, triggerStartTime, failoverInProgress,
                          impactedBatchTime, incidents, schedules>>]_vars

C36_Witness ==
  /\ ret.op = "addBatchLatency"
  /\ paths[0].status = "degraded"
  /\ paths[0].loadPercentage = R(5)
  /\ Len(pathHist[0]) = 2
  /\ Len(aggHist) = 3
  /\ paths[1].latencyWindow = <<>>
  /\ paths[1].loadPercentage # R(30)


(***************************************************************************)
(* C37: right after a rebalancePaths call that applies a distribution,     *)
(* every registered path whose status is degraded has loadPercentage 5,    *)
(* the paths an earlier detection marked degraded included.                *)
(***************************************************************************)
C37_DegradedPinnedAfterRebalance ==
  (/\ ret.op = "rebalancePaths"
   /\ ret.val # None
   /\ Len(ret.degradedPaths) < Cardinality(PathIds)) =>
    \A p \in PathIds :
      (paths[p].status = "degraded") => paths[p].loadPercentage = R(5)


(***************************************************************************)
(* C38: no step of a schedule returned by gradualRevert gives a path that  *)
(* is degraded when the schedule is made more load than the path has at    *)
(* that moment.                                                            *)
(***************************************************************************)
C38_NoLoadBackToDegraded ==
  (ret.op = "gradualRevert" /\ ret.val # None) =>
    \A p \in PathIds :
      (paths[p].status = "degraded") =>
        \A i \in 1 .. NumSteps :
          RLe(ret.val[1].steps[i].distribution[p], paths[p].loadPercentage)


(***************************************************************************)
(* C39: the paths one findKShortestPaths(src, dst, k, E) call returns are  *)
(* at most k and pairwise distinct node sequences, also when a direct link *)
(* joins src and dst.                                                      *)
(***************************************************************************)
C39_KPathsDistinct ==
  (ret.op = "findKShortestPaths") =>
    /\ Len(ret.val) <= ret.k
    /\ \A i, j \in DOMAIN ret.val : (i # j) => ret.val[i] # ret.val[j]


(***************************************************************************)
(* C40: in physical routing a failover is never followed at once by        *)
(* another one: some latency sample or node-health report is recorded      *)
(* between two consecutive failovers, so the active topology does not flip *)
(* back on the evidence that fired the first.                              *)
(***************************************************************************)
C40_NoFailoverOnStaleEvidence ==
  [][~(/\ ret = [op |-> "executeFailover", val |-> "done"]
       /\ Len(incidents) >= 1
       /\ Len(incidents') = Len(incidents) + 1)]_vars

====
